---------------------------- MODULE Spec2Model ----------------------------
(***************************************************************************)
(* TipJar: the ledger contract of smart_contracts/tip_jar/contract.algo.ts *)
(* as a state machine.  One action per contract method.  A method call is  *)
(* atomic on the ledger: either all its asserts pass and its writes and    *)
(* inner transactions take effect, or the whole transaction group is       *)
(* rejected and nothing changes.  Every call, accepted or rejected, is     *)
(* recorded in `last`; Return consumes that record before the next call.   *)
(*                                                                         *)
(* Not modelled: network transaction fees, the ledger's per-account        *)
(* minimum balance, and uint64 overflow of the accumulators (amounts are   *)
(* bounded by the ledger's supply, far below 2^64 / 10000).  A read of a   *)
(* local-state key that was never written yields 0 / the empty string.     *)
(* The sources define no method that opts an account out of the contract   *)
(* or clears its local state, so a profile, once written, stays.           *)
(*                                                                         *)
(* The browser client of frontend/js/wallet.js has two specifications of   *)
(* its own: SpecRetry, one run of withRetry, and SpecWallet, the           *)
(* registerCreator calls on one WalletManager and the page's register      *)
(* form.  The contract specification leaves the client at rest, and the    *)
(* client specifications leave the contract as constructed.                *)
(***************************************************************************)
EXTENDS Integers, Sequences, FiniteSets, TLC

\* ---------------------------------------------------------------- bounds
\* Accepted state-changing calls explored after deployment.
MaxCalls == 3
\* Balance of every user account before deployment (microALGO).
InitialBalance == 5000000

\* ------------------------------------------------------------- constants
MIN_CONTRACT_BALANCE == 100000
MAX_NAME_LEN == 50
MAX_BIO_LEN == 200
MAX_CATEGORY_LEN == 20
MAX_IMAGE_LEN == 200
MAX_COLLAB_NAME_LEN == 50
ADDR_LEN == 58
DefaultMinTipAmount == 100000
DefaultPlatformFeeBps == 100
DefaultBronze == 5000000
DefaultSilver == 25000000
DefaultGold == 100000000
DefaultDiamond == 500000000
MinMinTipAmount == 10000
MaxPlatformFeeBps == 1000
BpsDenominator == 10000
FundingAmount == 1000000

\* ------------------------------------------------------------ identities
Accounts == {"A", "B", "C"}
Deployer == "A"
AppAddress == "APP"
ZeroAddress == "ZERO"
Holders == Accounts \cup {AppAddress}
\* Bytes(''): the empty byte string of pendingAdminAddress.
NoBytes == ""

\* ----------------------------------------------------------------- text
\* A string is given by one character and its number of repetitions; the
\* empty string has a single representation.
EmptyStr == [ch |-> "", n |-> 0]
Str(ch, n) == IF n = 0 THEN EmptyStr ELSE [ch |-> ch, n |-> n]
Length(s) == s.n
\* The 58-character text form of an account's address.
AddrStr(a) == Str(a, ADDR_LEN)

VARIABLES
  created,
  totalCreators, totalTipsProcessed, totalTipCount, minTipAmount,
  platformFeeBps, adminAddress, pendingAdminAddress, isPaused,
  totalBadgesMinted, totalFeesAccumulated,
  bronzeThreshold, silverThreshold, goldThreshold, diamondThreshold,
  creatorName, creatorBio, creatorCategory, tipsReceived, tipCount,
  isRegistered, profileImageUrl, revSplitAddress, revSplitPercent,
  revSplitName,
  balance, assets,
  last, calls, prevAdmin, displaced,
  retry, wallet

adminVars == <<adminAddress, pendingAdminAddress>>
settingVars == <<minTipAmount, platformFeeBps, bronzeThreshold,
                 silverThreshold, goldThreshold, diamondThreshold>>
tipGlobals == <<totalTipsProcessed, totalTipCount, totalFeesAccumulated>>
globals == <<totalCreators, tipGlobals, settingVars, adminVars, isPaused,
             totalBadgesMinted>>
textVars == <<creatorName, creatorBio, creatorCategory, profileImageUrl>>
splitVars == <<revSplitAddress, revSplitPercent, revSplitName>>
tipLocals == <<tipsReceived, tipCount>>
locals == <<textVars, splitVars, tipLocals, isRegistered>>
ledger == <<balance, assets>>
\* Everything the contract and the ledger hold.
state == <<created, globals, locals, ledger>>
\* What the model remembers of the admin handoffs: the admin that the last
\* accepted acceptAdmin replaced, and the nominee that an accepted
\* transferAdmin replaced since then.
history == <<prevAdmin, displaced>>
\* The browser client: one withRetry invocation, one WalletManager.
client == <<retry, wallet>>
vars == <<state, last, calls, history, client>>

\* ------------------------------------------------------------ call record
\* The contract, the ledger and the bookkeeping as a call finds them: kept
\* in the call's record until Return.
Snapshot ==
  [created |-> created,
   totalCreators |-> totalCreators,
   totalTipsProcessed |-> totalTipsProcessed,
   totalTipCount |-> totalTipCount,
   minTipAmount |-> minTipAmount,
   platformFeeBps |-> platformFeeBps,
   adminAddress |-> adminAddress,
   pendingAdminAddress |-> pendingAdminAddress,
   isPaused |-> isPaused,
   totalBadgesMinted |-> totalBadgesMinted,
   totalFeesAccumulated |-> totalFeesAccumulated,
   bronzeThreshold |-> bronzeThreshold,
   silverThreshold |-> silverThreshold,
   goldThreshold |-> goldThreshold,
   diamondThreshold |-> diamondThreshold,
   creatorName |-> creatorName,
   creatorBio |-> creatorBio,
   creatorCategory |-> creatorCategory,
   tipsReceived |-> tipsReceived,
   tipCount |-> tipCount,
   isRegistered |-> isRegistered,
   profileImageUrl |-> profileImageUrl,
   revSplitAddress |-> revSplitAddress,
   revSplitPercent |-> revSplitPercent,
   revSplitName |-> revSplitName,
   balance |-> balance,
   assets |-> assets,
   calls |-> calls,
   prevAdmin |-> prevAdmin,
   displaced |-> displaced]

NoCall == [method |-> "none"]
Accepted(m, s, a, inner, ret) ==
  [method |-> m, sender |-> s, ok |-> TRUE, args |-> a, inner |-> inner,
   ret |-> ret, pre |-> Snapshot]
Rejected(m, s, a) ==
  [method |-> m, sender |-> s, ok |-> FALSE, args |-> a, inner |-> <<>>,
   ret |-> "rejected", pre |-> Snapshot]
NoArgs == [none |-> TRUE]

\* A payment of amt from one holder to another.
Pay(b, from, to, amt) == [b EXCEPT ![from] = @ - amt, ![to] = @ + amt]

\* ------------------------------------------------------------------ guards
\* Mutants of the guards: the check is left out.
assertNotPaused_Omitted == TRUE
assertAdmin_Omitted(sender) == TRUE
\* Mutant: the nominee of a pending transfer already passes the check.
assertAdmin_OrPending(sender) ==
  sender = adminAddress \/ sender = pendingAdminAddress
assertNotPaused == isPaused = 0
assertAdmin(sender) == sender = adminAddress
assertRegistered(sender) == isRegistered[sender] = 1

\* ------------------------------------------------------ client, at rest
\* lastError before any attempt has failed (JavaScript's undefined).
Undefined == {"undefined"}
\* No withRetry invocation has been made.
NoRetry ==
  [pc |-> "idle", maxRetries |-> 0, attempt |-> 0, invoked |-> 0,
   lastError |-> Undefined, outcome |-> [kind |-> "none"]]
\* Concurrent registration attempts explored on the one WalletManager.
MaxPending == 3
Pending == 1 .. MaxPending
\* new WalletManager() with no saved session: not connected, not registered,
\* no entry of DEMO_CREATORS pushed by it, the register form unlocked.
NewWallet ==
  [connected |-> FALSE, isRegistered |-> FALSE, loading |-> FALSE,
   creators |-> 0, formLocks |-> {},
   call |-> [i \in Pending |-> [pc |-> "none", result |-> "none"]]]

\* ------------------------------------------------------------------- Init
Init ==
  /\ created = FALSE
  /\ totalCreators = 0 /\ totalTipsProcessed = 0 /\ totalTipCount = 0
  /\ minTipAmount = 0 /\ platformFeeBps = 0
  /\ adminAddress = NoBytes /\ pendingAdminAddress = NoBytes
  /\ isPaused = 0 /\ totalBadgesMinted = 0 /\ totalFeesAccumulated = 0
  /\ bronzeThreshold = 0 /\ silverThreshold = 0
  /\ goldThreshold = 0 /\ diamondThreshold = 0
  /\ creatorName = [a \in Accounts |-> EmptyStr]
  /\ creatorBio = [a \in Accounts |-> EmptyStr]
  /\ creatorCategory = [a \in Accounts |-> EmptyStr]
  /\ profileImageUrl = [a \in Accounts |-> EmptyStr]
  /\ tipsReceived = [a \in Accounts |-> 0]
  /\ tipCount = [a \in Accounts |-> 0]
  /\ isRegistered = [a \in Accounts |-> 0]
  /\ revSplitAddress = [a \in Accounts |-> EmptyStr]
  /\ revSplitPercent = [a \in Accounts |-> 0]
  /\ revSplitName = [a \in Accounts |-> EmptyStr]
  /\ balance = [h \in Holders |-> IF h = AppAddress THEN 0 ELSE InitialBalance]
  /\ assets = <<>>
  /\ last = NoCall
  /\ calls = 0
  /\ prevAdmin = NoBytes
  /\ displaced = NoBytes
  /\ retry = NoRetry
  /\ wallet = NewWallet

\* The idle ledger, ready to evaluate the next call.
Idle == created /\ last = NoCall
\* An accepted state-changing call uses one unit of the exploration budget.
Count == calls < MaxCalls /\ calls' = calls + 1

\* ------------------------------------------------------- createApplication
createApplication(sender) ==
  /\ adminAddress' = sender
  /\ pendingAdminAddress' = NoBytes
  /\ totalCreators' = 0
  /\ totalTipsProcessed' = 0
  /\ totalTipCount' = 0
  /\ totalFeesAccumulated' = 0
  /\ minTipAmount' = DefaultMinTipAmount
  /\ platformFeeBps' = DefaultPlatformFeeBps
  /\ isPaused' = 0
  /\ totalBadgesMinted' = 0
  /\ bronzeThreshold' = DefaultBronze
  /\ silverThreshold' = DefaultSilver
  /\ goldThreshold' = DefaultGold
  /\ diamondThreshold' = DefaultDiamond

\* Mutant: the application can be created again over a live contract.
Deploy_Repeatable ==
  /\ last = NoCall
  /\ balance[Deployer] >= FundingAmount
  /\ created' = TRUE
  /\ createApplication(Deployer)
  /\ balance' = Pay(balance, Deployer, AppAddress, FundingAmount)
  /\ UNCHANGED <<locals, assets, last, calls, history, client>>

\* deploy(): create the application, then fund its account with 1 ALGO.
Deploy ==
  /\ ~created
  /\ created' = TRUE
  /\ createApplication(Deployer)
  /\ balance' = Pay(balance, Deployer, AppAddress, FundingAmount)
  /\ UNCHANGED <<locals, assets, last, calls, history, client>>

\* The caller has received the result; the ledger takes the next call.
Return ==
  /\ last # NoCall
  /\ last' = NoCall
  /\ UNCHANGED <<state, calls, history, client>>

\* ------------------------------------------------ admin: pause / transfer
pauseContract(sender) ==
  /\ Idle
  /\ IF assertAdmin(sender)
     THEN /\ Count
          /\ isPaused' = 1
          /\ last' = Accepted("pauseContract", sender, NoArgs, <<>>,
                              "Contract paused")
          /\ UNCHANGED <<created, totalCreators, tipGlobals, settingVars,
                         adminVars, totalBadgesMinted, locals, ledger,
                         history, client>>
     ELSE /\ last' = Rejected("pauseContract", sender, NoArgs)
          /\ UNCHANGED <<state, calls, history, client>>

unpauseContract(sender) ==
  /\ Idle
  /\ IF assertAdmin(sender)
     THEN /\ Count
          /\ isPaused' = 0
          /\ last' = Accepted("unpauseContract", sender, NoArgs, <<>>,
                              "Contract unpaused")
          /\ UNCHANGED <<created, totalCreators, tipGlobals, settingVars,
                         adminVars, totalBadgesMinted, locals, ledger,
                         history, client>>
     ELSE /\ last' = Rejected("unpauseContract", sender, NoArgs)
          /\ UNCHANGED <<state, calls, history, client>>

\* Mutant: the self-transfer check is left out.
transferAdminOk_SelfAllowed(sender, newAdmin) == sender = adminAddress

transferAdminOk(sender, newAdmin) ==
  /\ assertAdmin(sender)
  /\ newAdmin # sender

\* Mutant: a one-step transfer that installs the new admin at once.
transferAdmin_OneStep(sender, newAdmin) ==
  /\ created /\ last = NoCall
  /\ IF sender = adminAddress /\ newAdmin # sender
     THEN /\ calls < MaxCalls /\ calls' = calls + 1
          /\ adminAddress' = newAdmin
          /\ pendingAdminAddress' = newAdmin
          /\ last' = Accepted("transferAdmin", sender,
                              [newAdmin |-> newAdmin], <<>>,
                              "Admin transfer initiated")
          /\ UNCHANGED <<created, totalCreators, tipGlobals, settingVars,
                         isPaused, totalBadgesMinted, locals, ledger,
                         history, client>>
     ELSE /\ last' = Rejected("transferAdmin", sender,
                              [newAdmin |-> newAdmin])
          /\ UNCHANGED <<state, calls, history, client>>

transferAdmin(sender, newAdmin) ==
  /\ Idle
  /\ IF transferAdminOk(sender, newAdmin)
     THEN /\ Count
          /\ pendingAdminAddress' = newAdmin
          /\ displaced' = IF pendingAdminAddress \in {NoBytes, newAdmin}
                          THEN displaced ELSE pendingAdminAddress
          /\ last' = Accepted("transferAdmin", sender,
                              [newAdmin |-> newAdmin], <<>>,
                              "Admin transfer initiated")
          /\ UNCHANGED <<created, totalCreators, tipGlobals, settingVars,
                         adminAddress, isPaused, totalBadgesMinted, locals,
                         ledger, prevAdmin, client>>
     ELSE /\ last' = Rejected("transferAdmin", sender,
                              [newAdmin |-> newAdmin])
          /\ UNCHANGED <<state, calls, history, client>>

\* Mutant: any caller may accept a pending transfer.
acceptAdminOk_AnyCaller(sender) == pendingAdminAddress # NoBytes

acceptAdminOk(sender) ==
  /\ pendingAdminAddress # NoBytes
  /\ sender = pendingAdminAddress

\* prevAdmin remembers the identity that the accepted handoff replaced;
\* the handoff leaves no displaced nominee behind.
acceptAdmin(sender) ==
  /\ Idle
  /\ IF acceptAdminOk(sender)
     THEN /\ Count
          /\ adminAddress' = sender
          /\ pendingAdminAddress' = NoBytes
          /\ prevAdmin' = adminAddress
          /\ displaced' = NoBytes
          /\ last' = Accepted("acceptAdmin", sender, NoArgs, <<>>,
                              "Admin role accepted")
          /\ UNCHANGED <<created, totalCreators, tipGlobals, settingVars,
                         isPaused, totalBadgesMinted, locals, ledger,
                         client>>
     ELSE /\ last' = Rejected("acceptAdmin", sender, NoArgs)
          /\ UNCHANGED <<state, calls, history, client>>

\* ------------------------------------------- registration and profile
\* The argument tuples of registerCreator / updateProfile that are tried.
ValidProfile == [name |-> Str("n", 1), bio |-> Str("b", MAX_BIO_LEN),
                 category |-> Str("c", MAX_CATEGORY_LEN),
                 profileImage |-> EmptyStr]
\* The valid tuple at the other end of every length range.
EdgeProfile == [name |-> Str("n", MAX_NAME_LEN), bio |-> Str("b", 1),
                category |-> Str("c", 1),
                profileImage |-> Str("i", MAX_IMAGE_LEN)]
ProfileForms ==
  { ValidProfile, EdgeProfile,
    [ValidProfile EXCEPT !.name = EmptyStr],
    [ValidProfile EXCEPT !.name = Str("n", MAX_NAME_LEN + 1)],
    [ValidProfile EXCEPT !.bio = EmptyStr],
    [ValidProfile EXCEPT !.bio = Str("b", MAX_BIO_LEN + 1)],
    [ValidProfile EXCEPT !.category = EmptyStr],
    [ValidProfile EXCEPT !.category = Str("c", MAX_CATEGORY_LEN + 1)],
    [ValidProfile EXCEPT !.profileImage = Str("i", MAX_IMAGE_LEN + 1)] }
UpdateForms ==
  { EdgeProfile, ValidProfile,
    [ValidProfile EXCEPT !.category = EmptyStr] }

\* Mutant: the double-registration check is left out.
registerCreatorOk_NoDuplicateCheck(sender, f) ==
  /\ isPaused = 0
  /\ Length(f.name) > 0 /\ Length(f.name) <= MAX_NAME_LEN
  /\ Length(f.bio) > 0 /\ Length(f.bio) <= MAX_BIO_LEN
  /\ Length(f.category) > 0 /\ Length(f.category) <= MAX_CATEGORY_LEN
  /\ Length(f.profileImage) <= MAX_IMAGE_LEN

\* Mutant: the upper bound of the name is strict.
registerCreatorOk_NameOffByOne(sender, f) ==
  /\ isPaused = 0
  /\ isRegistered[sender] # 1
  /\ Length(f.name) > 0 /\ Length(f.name) < MAX_NAME_LEN
  /\ Length(f.bio) > 0 /\ Length(f.bio) <= MAX_BIO_LEN
  /\ Length(f.category) > 0 /\ Length(f.category) <= MAX_CATEGORY_LEN
  /\ Length(f.profileImage) <= MAX_IMAGE_LEN

registerCreatorOk(sender, f) ==
  /\ assertNotPaused
  /\ isRegistered[sender] # 1
  /\ Length(f.name) > 0
  /\ Length(f.bio) > 0
  /\ Length(f.category) > 0
  /\ Length(f.name) <= MAX_NAME_LEN
  /\ Length(f.bio) <= MAX_BIO_LEN
  /\ Length(f.category) <= MAX_CATEGORY_LEN
  /\ Length(f.profileImage) <= MAX_IMAGE_LEN

\* Mutant: a registration that does not count the new creator.
registerCreator_NoCount(sender, f) ==
  /\ Idle
  /\ IF registerCreatorOk(sender, f)
     THEN /\ Count
          /\ creatorName' = [creatorName EXCEPT ![sender] = f.name]
          /\ creatorBio' = [creatorBio EXCEPT ![sender] = f.bio]
          /\ creatorCategory' =
               [creatorCategory EXCEPT ![sender] = f.category]
          /\ profileImageUrl' =
               [profileImageUrl EXCEPT ![sender] = f.profileImage]
          /\ tipsReceived' = [tipsReceived EXCEPT ![sender] = 0]
          /\ tipCount' = [tipCount EXCEPT ![sender] = 0]
          /\ isRegistered' = [isRegistered EXCEPT ![sender] = 1]
          /\ revSplitAddress' = [revSplitAddress EXCEPT ![sender] = EmptyStr]
          /\ revSplitPercent' = [revSplitPercent EXCEPT ![sender] = 0]
          /\ revSplitName' = [revSplitName EXCEPT ![sender] = EmptyStr]
          /\ last' = Accepted("registerCreator", sender, f, <<>>,
                              "Creator registered successfully")
          /\ UNCHANGED <<created, globals, ledger, history, client>>
     ELSE /\ last' = Rejected("registerCreator", sender, f)
          /\ UNCHANGED <<state, calls, history, client>>

registerCreator(sender, f) ==
  /\ Idle
  /\ IF registerCreatorOk(sender, f)
     THEN /\ Count
          /\ creatorName' = [creatorName EXCEPT ![sender] = f.name]
          /\ creatorBio' = [creatorBio EXCEPT ![sender] = f.bio]
          /\ creatorCategory' =
               [creatorCategory EXCEPT ![sender] = f.category]
          /\ profileImageUrl' =
               [profileImageUrl EXCEPT ![sender] = f.profileImage]
          /\ tipsReceived' = [tipsReceived EXCEPT ![sender] = 0]
          /\ tipCount' = [tipCount EXCEPT ![sender] = 0]
          /\ isRegistered' = [isRegistered EXCEPT ![sender] = 1]
          /\ revSplitAddress' = [revSplitAddress EXCEPT ![sender] = EmptyStr]
          /\ revSplitPercent' = [revSplitPercent EXCEPT ![sender] = 0]
          /\ revSplitName' = [revSplitName EXCEPT ![sender] = EmptyStr]
          /\ totalCreators' = totalCreators + 1
          /\ last' = Accepted("registerCreator", sender, f, <<>>,
                              "Creator registered successfully")
          /\ UNCHANGED <<created, tipGlobals, settingVars, adminVars,
                         isPaused, totalBadgesMinted, ledger, history, client>>
     ELSE /\ last' = Rejected("registerCreator", sender, f)
          /\ UNCHANGED <<state, calls, history, client>>

\* Mutant: updateProfile without the circuit breaker.
updateProfileOk_NoPauseCheck(sender, f) ==
  /\ isRegistered[sender] = 1
  /\ Length(f.name) > 0 /\ Length(f.name) <= MAX_NAME_LEN
  /\ Length(f.bio) > 0 /\ Length(f.bio) <= MAX_BIO_LEN
  /\ Length(f.category) > 0 /\ Length(f.category) <= MAX_CATEGORY_LEN
  /\ Length(f.profileImage) <= MAX_IMAGE_LEN

updateProfileOk(sender, f) ==
  /\ assertNotPaused
  /\ assertRegistered(sender)
  /\ Length(f.name) > 0 /\ Length(f.name) <= MAX_NAME_LEN
  /\ Length(f.bio) > 0 /\ Length(f.bio) <= MAX_BIO_LEN
  /\ Length(f.category) > 0 /\ Length(f.category) <= MAX_CATEGORY_LEN
  /\ Length(f.profileImage) <= MAX_IMAGE_LEN

\* Mutant: an update that also resets the caller's tip statistics, as a
\* registration does.
updateProfile_ResetsStats(sender, f) ==
  /\ Idle
  /\ IF updateProfileOk(sender, f)
     THEN /\ Count
          /\ creatorName' = [creatorName EXCEPT ![sender] = f.name]
          /\ creatorBio' = [creatorBio EXCEPT ![sender] = f.bio]
          /\ creatorCategory' =
               [creatorCategory EXCEPT ![sender] = f.category]
          /\ profileImageUrl' =
               [profileImageUrl EXCEPT ![sender] = f.profileImage]
          /\ tipsReceived' = [tipsReceived EXCEPT ![sender] = 0]
          /\ tipCount' = [tipCount EXCEPT ![sender] = 0]
          /\ last' = Accepted("updateProfile", sender, f, <<>>,
                              "Profile updated successfully")
          /\ UNCHANGED <<created, globals, splitVars, isRegistered, ledger,
                         history, client>>
     ELSE /\ last' = Rejected("updateProfile", sender, f)
          /\ UNCHANGED <<state, calls, history, client>>

updateProfile(sender, f) ==
  /\ Idle
  /\ IF updateProfileOk(sender, f)
     THEN /\ Count
          /\ creatorName' = [creatorName EXCEPT ![sender] = f.name]
          /\ creatorBio' = [creatorBio EXCEPT ![sender] = f.bio]
          /\ creatorCategory' =
               [creatorCategory EXCEPT ![sender] = f.category]
          /\ profileImageUrl' =
               [profileImageUrl EXCEPT ![sender] = f.profileImage]
          /\ last' = Accepted("updateProfile", sender, f, <<>>,
                              "Profile updated successfully")
          /\ UNCHANGED <<created, globals, splitVars, tipLocals,
                         isRegistered, ledger, history, client>>
     ELSE /\ last' = Rejected("updateProfile", sender, f)
          /\ UNCHANGED <<state, calls, history, client>>

\* ----------------------------------------------------------- revenue split
SplitForms ==
  { [collaboratorAddr |-> AddrStr("C"), collaboratorName |-> Str("k", 1),
     splitPercent |-> 20],
    [collaboratorAddr |-> AddrStr("C"),
     collaboratorName |-> Str("k", MAX_COLLAB_NAME_LEN),
     splitPercent |-> 50],
    [collaboratorAddr |-> AddrStr("C"), collaboratorName |-> Str("k", 1),
     splitPercent |-> 0],
    [collaboratorAddr |-> AddrStr("C"), collaboratorName |-> Str("k", 1),
     splitPercent |-> 51],
    [collaboratorAddr |-> Str("C", ADDR_LEN - 1),
     collaboratorName |-> Str("k", 1), splitPercent |-> 20],
    [collaboratorAddr |-> AddrStr("C"), collaboratorName |-> EmptyStr,
     splitPercent |-> 20],
    [collaboratorAddr |-> AddrStr("C"),
     collaboratorName |-> Str("k", MAX_COLLAB_NAME_LEN + 1),
     splitPercent |-> 20] }

\* Mutant: the upper bound of the collaborator name is left out.
setRevenueSplitOk_NoNameLimit(sender, f) ==
  /\ isPaused = 0
  /\ isRegistered[sender] = 1
  /\ f.splitPercent >= 1
  /\ f.splitPercent <= 50
  /\ Length(f.collaboratorAddr) = ADDR_LEN
  /\ Length(f.collaboratorName) > 0

\* Mutant: the lower bound of the percentage is left out.
setRevenueSplitOk_NoLowerBound(sender, f) ==
  /\ isPaused = 0
  /\ isRegistered[sender] = 1
  /\ f.splitPercent <= 50
  /\ Length(f.collaboratorAddr) = ADDR_LEN
  /\ Length(f.collaboratorName) > 0
  /\ Length(f.collaboratorName) <= MAX_COLLAB_NAME_LEN

setRevenueSplitOk(sender, f) ==
  /\ assertNotPaused
  /\ assertRegistered(sender)
  /\ f.splitPercent >= 1
  /\ f.splitPercent <= 50
  /\ Length(f.collaboratorAddr) = ADDR_LEN
  /\ Length(f.collaboratorName) > 0
  /\ Length(f.collaboratorName) <= MAX_COLLAB_NAME_LEN

\* Mutant: the split is applied at once to the tips already received, by a
\* payment from the contract to the collaborator.
setRevenueSplit_Eager(sender, f) ==
  /\ Idle
  /\ IF setRevenueSplitOk(sender, f)
     THEN /\ Count
          /\ revSplitAddress' =
               [revSplitAddress EXCEPT ![sender] = f.collaboratorAddr]
          /\ revSplitName' =
               [revSplitName EXCEPT ![sender] = f.collaboratorName]
          /\ revSplitPercent' =
               [revSplitPercent EXCEPT ![sender] = f.splitPercent]
          /\ balance' = Pay(balance, AppAddress, f.collaboratorAddr.ch,
                            (tipsReceived[sender] * f.splitPercent) \div 100)
          /\ last' = Accepted("setRevenueSplit", sender, f, <<>>,
                              "Revenue split configured")
          /\ UNCHANGED <<created, globals, textVars, tipLocals,
                         isRegistered, assets, history, client>>
     ELSE /\ last' = Rejected("setRevenueSplit", sender, f)
          /\ UNCHANGED <<state, calls, history, client>>

setRevenueSplit(sender, f) ==
  /\ Idle
  /\ IF setRevenueSplitOk(sender, f)
     THEN /\ Count
          /\ revSplitAddress' =
               [revSplitAddress EXCEPT ![sender] = f.collaboratorAddr]
          /\ revSplitName' =
               [revSplitName EXCEPT ![sender] = f.collaboratorName]
          /\ revSplitPercent' =
               [revSplitPercent EXCEPT ![sender] = f.splitPercent]
          /\ last' = Accepted("setRevenueSplit", sender, f, <<>>,
                              "Revenue split configured")
          /\ UNCHANGED <<created, globals, textVars, tipLocals,
                         isRegistered, ledger, history, client>>
     ELSE /\ last' = Rejected("setRevenueSplit", sender, f)
          /\ UNCHANGED <<state, calls, history, client>>

removeRevenueSplitOk(sender) ==
  /\ assertNotPaused
  /\ assertRegistered(sender)

removeRevenueSplit(sender) ==
  /\ Idle
  /\ IF removeRevenueSplitOk(sender)
     THEN /\ Count
          /\ revSplitAddress' = [revSplitAddress EXCEPT ![sender] = EmptyStr]
          /\ revSplitName' = [revSplitName EXCEPT ![sender] = EmptyStr]
          /\ revSplitPercent' = [revSplitPercent EXCEPT ![sender] = 0]
          /\ last' = Accepted("removeRevenueSplit", sender, NoArgs, <<>>,
                              "Revenue split removed")
          /\ UNCHANGED <<created, globals, textVars, tipLocals,
                         isRegistered, ledger, history, client>>
     ELSE /\ last' = Rejected("removeRevenueSplit", sender, NoArgs)
          /\ UNCHANGED <<state, calls, history, client>>

\* ---------------------------------------------------------------- tipping
Message == Str("t", 5)
TipAmounts == {99999, 1000000, 1000001, 2000000}
TipPayment(from, to, amt, close, rekey) ==
  [sender |-> from, receiver |-> to, amount |-> amt,
   closeRemainderTo |-> close, rekeyTo |-> rekey]
\* The payment transactions grouped with a sendTip call that are tried: the
\* caller's own well-formed payments, one payment off in each field, and a
\* well-formed payment sent by each other account.
TipPayments(sender, creator) ==
  { TipPayment(sender, AppAddress, a, ZeroAddress, ZeroAddress) :
      a \in TipAmounts }
  \cup { TipPayment(sender, creator, 1000000, ZeroAddress, ZeroAddress),
         TipPayment(sender, AppAddress, 1000000, sender, ZeroAddress),
         TipPayment(sender, AppAddress, 1000000, ZeroAddress, sender),
         TipPayment(creator, AppAddress, 1000000, ZeroAddress, ZeroAddress) }
  \cup { TipPayment(payer, AppAddress, 1000000, ZeroAddress, ZeroAddress) :
           payer \in Accounts \ {sender} }

\* The ledger applies the grouped payment only if its sender can fund it.
PaymentFunded(p) == balance[p.sender] >= p.amount

\* Mutant: the rekey check is left out.
sendTipOk_NoRekeyCheck(sender, creator, tipPayment) ==
  /\ isPaused = 0
  /\ isRegistered[creator] = 1
  /\ tipPayment.amount >= minTipAmount
  /\ tipPayment.receiver = AppAddress
  /\ tipPayment.closeRemainderTo = ZeroAddress
  /\ sender # creator

sendTipOk(sender, creator, tipPayment) ==
  /\ assertNotPaused
  /\ isRegistered[creator] = 1
  /\ tipPayment.amount >= minTipAmount
  /\ tipPayment.receiver = AppAddress
  /\ tipPayment.closeRemainderTo = ZeroAddress
  /\ tipPayment.rekeyTo = ZeroAddress
  /\ sender # creator

\* Mutant: the fee rate read as tenths of a percent.
FeeAmount_PerMille(tipAmount, feeBps) == (tipAmount * feeBps) \div 1000
FeeAmount(tipAmount, feeBps) == (tipAmount * feeBps) \div BpsDenominator
AfterFee(tipAmount, feeAmount) == tipAmount - feeAmount
CollaboratorAmount(afterFee, splitPercent) == (afterFee * splitPercent) \div 100
\* Mutant: the creator is paid the full after-fee amount, split or not.
CreatorAmount_IgnoresSplit(afterFee, splitPercent) == afterFee
\* The amount of the inner payment to the creator.
CreatorAmount(afterFee, splitPercent) ==
  IF splitPercent > 0
  THEN afterFee - CollaboratorAmount(afterFee, splitPercent)
  ELSE afterFee

\* Mutants of sendTip: the creator's statistics are credited with the amount
\* after the fee (creditNet), or the collaborator's share is paid out to the
\* collaborator (payCollaborator).
sendTip_Variant(sender, creator, message, tipPayment, creditNet,
                payCollaborator) ==
  /\ Idle
  /\ IF sendTipOk(sender, creator, tipPayment) /\ PaymentFunded(tipPayment)
     THEN LET tipAmount == tipPayment.amount
              feeAmount == FeeAmount(tipAmount, platformFeeBps)
              afterFee == AfterFee(tipAmount, feeAmount)
              splitPercent == revSplitPercent[creator]
              paid == CreatorAmount(afterFee, splitPercent)
              credited == IF creditNet THEN afterFee ELSE tipAmount
              received == Pay(balance, tipPayment.sender, AppAddress,
                              tipAmount)
              settled == Pay(received, AppAddress, creator, paid)
          IN /\ Count
             /\ totalFeesAccumulated' = totalFeesAccumulated + feeAmount
             /\ balance' =
                  IF payCollaborator /\ splitPercent > 0
                  THEN Pay(settled, AppAddress, revSplitAddress[creator].ch,
                           CollaboratorAmount(afterFee, splitPercent))
                  ELSE settled
             /\ tipsReceived' =
                  [tipsReceived EXCEPT ![creator] = @ + credited]
             /\ tipCount' = [tipCount EXCEPT ![creator] = @ + 1]
             /\ totalTipsProcessed' = totalTipsProcessed + tipAmount
             /\ totalTipCount' = totalTipCount + 1
             /\ last' = Accepted("sendTip", sender,
                                 [creator |-> creator, message |-> message,
                                  tipPayment |-> tipPayment],
                                 << [type |-> "pay", receiver |-> creator,
                                     amount |-> paid] >>,
                                 "Tip sent to creator")
             /\ UNCHANGED <<created, totalCreators, settingVars, adminVars,
                            isPaused, totalBadgesMinted, textVars, splitVars,
                            isRegistered, assets, history, client>>
     ELSE /\ last' = Rejected("sendTip", sender,
                              [creator |-> creator, message |-> message,
                               tipPayment |-> tipPayment])
          /\ UNCHANGED <<state, calls, history, client>>
sendTip_CreditsNet(sender, creator, message, tipPayment) ==
  sendTip_Variant(sender, creator, message, tipPayment, TRUE, FALSE)
sendTip_PaysCollaborator(sender, creator, message, tipPayment) ==
  sendTip_Variant(sender, creator, message, tipPayment, FALSE, TRUE)

sendTip(sender, creator, message, tipPayment) ==
  /\ Idle
  /\ IF sendTipOk(sender, creator, tipPayment) /\ PaymentFunded(tipPayment)
     THEN LET tipAmount == tipPayment.amount
              feeAmount == FeeAmount(tipAmount, platformFeeBps)
              afterFee == AfterFee(tipAmount, feeAmount)
              paid == CreatorAmount(afterFee, revSplitPercent[creator])
              received == Pay(balance, tipPayment.sender, AppAddress,
                              tipAmount)
          IN /\ Count
             /\ totalFeesAccumulated' = totalFeesAccumulated + feeAmount
             /\ balance' = Pay(received, AppAddress, creator, paid)
             /\ tipsReceived' =
                  [tipsReceived EXCEPT ![creator] = @ + tipAmount]
             /\ tipCount' = [tipCount EXCEPT ![creator] = @ + 1]
             /\ totalTipsProcessed' = totalTipsProcessed + tipAmount
             /\ totalTipCount' = totalTipCount + 1
             /\ last' = Accepted("sendTip", sender,
                                 [creator |-> creator, message |-> message,
                                  tipPayment |-> tipPayment],
                                 << [type |-> "pay", receiver |-> creator,
                                     amount |-> paid] >>,
                                 "Tip sent to creator")
             /\ UNCHANGED <<created, totalCreators, settingVars, adminVars,
                            isPaused, totalBadgesMinted, textVars, splitVars,
                            isRegistered, assets, history, client>>
     ELSE /\ last' = Rejected("sendTip", sender,
                              [creator |-> creator, message |-> message,
                               tipPayment |-> tipPayment])
          /\ UNCHANGED <<state, calls, history, client>>

\* ------------------------------------------------- sendTip as a function
\* What sendTip reads and writes besides the settings: the balances and the
\* tip statistics.
TipView ==
  [balance |-> balance, tipsReceived |-> tipsReceived,
   tipCount |-> tipCount, totalTipsProcessed |-> totalTipsProcessed,
   totalTipCount |-> totalTipCount,
   totalFeesAccumulated |-> totalFeesAccumulated]
\* The sendTip calls that are tried.
TipCalls ==
  UNION { { [sender |-> s, creator |-> c, tipPayment |-> p] :
              p \in TipPayments(s, c) } : s \in Accounts, c \in Accounts }
\* The call is accepted on the view v under the current settings, splits
\* and registrations.
TipAccepted(v, t) ==
  /\ sendTipOk(t.sender, t.creator, t.tipPayment)
  /\ v.balance[t.tipPayment.sender] >= t.tipPayment.amount

\* Mutant: a creator's first tip is free of the platform fee.
TipEffect_FirstTipFree(v, t) ==
  LET tipAmount == t.tipPayment.amount
      feeAmount == IF v.tipCount[t.creator] = 0 THEN 0
                   ELSE FeeAmount(tipAmount, platformFeeBps)
      afterFee == AfterFee(tipAmount, feeAmount)
      paid == CreatorAmount(afterFee, revSplitPercent[t.creator])
      received == Pay(v.balance, t.tipPayment.sender, AppAddress, tipAmount)
  IN [balance |-> Pay(received, AppAddress, t.creator, paid),
      tipsReceived |-> [v.tipsReceived EXCEPT ![t.creator] = @ + tipAmount],
      tipCount |-> [v.tipCount EXCEPT ![t.creator] = @ + 1],
      totalTipsProcessed |-> v.totalTipsProcessed + tipAmount,
      totalTipCount |-> v.totalTipCount + 1,
      totalFeesAccumulated |-> v.totalFeesAccumulated + feeAmount]

\* The view after an accepted call: the grouped payment, the fee, the inner
\* payment to the creator, the statistics.
TipEffect(v, t) ==
  LET tipAmount == t.tipPayment.amount
      feeAmount == FeeAmount(tipAmount, platformFeeBps)
      afterFee == AfterFee(tipAmount, feeAmount)
      paid == CreatorAmount(afterFee, revSplitPercent[t.creator])
      received == Pay(v.balance, t.tipPayment.sender, AppAddress, tipAmount)
  IN [balance |-> Pay(received, AppAddress, t.creator, paid),
      tipsReceived |-> [v.tipsReceived EXCEPT ![t.creator] = @ + tipAmount],
      tipCount |-> [v.tipCount EXCEPT ![t.creator] = @ + 1],
      totalTipsProcessed |-> v.totalTipsProcessed + tipAmount,
      totalTipCount |-> v.totalTipCount + 1,
      totalFeesAccumulated |-> v.totalFeesAccumulated + feeAmount]

\* ----------------------------------------------------------------- badges
BadgeTiers == 0 .. 5
Supporter == "B"

\* Mutants: tier 5 is let through; the creator's tips must have reached the
\* threshold of the tier.
mintBadgeOk_TierFive(sender, badgeTier, creatorAddr) ==
  /\ isPaused = 0
  /\ (sender = adminAddress \/ sender = creatorAddr)
  /\ badgeTier >= 1 /\ badgeTier <= 5
  /\ isRegistered[creatorAddr] = 1
mintBadgeOk_NeedsThreshold(sender, badgeTier, creatorAddr) ==
  /\ isPaused = 0
  /\ (sender = adminAddress \/ sender = creatorAddr)
  /\ badgeTier >= 1 /\ badgeTier <= 4
  /\ isRegistered[creatorAddr] = 1
  /\ tipsReceived[creatorAddr] >=
       ( IF badgeTier = 1 THEN bronzeThreshold
         ELSE IF badgeTier = 2 THEN silverThreshold
         ELSE IF badgeTier = 3 THEN goldThreshold
         ELSE diamondThreshold )

mintBadgeOk(sender, badgeTier, creatorAddr) ==
  /\ assertNotPaused
  /\ (sender = adminAddress \/ sender = creatorAddr)
  /\ badgeTier >= 1 /\ badgeTier <= 4
  /\ isRegistered[creatorAddr] = 1

TierName(badgeTier) ==
  IF badgeTier = 1 THEN "Bronze"
  ELSE IF badgeTier = 2 THEN "Silver"
  ELSE IF badgeTier = 3 THEN "Gold"
  ELSE "Diamond"

mintBadge(sender, supporter, badgeTier, creatorAddr) ==
  /\ Idle
  /\ IF mintBadgeOk(sender, badgeTier, creatorAddr)
     THEN LET nft == [type |-> "acfg", total |-> 1, decimals |-> 0,
                      unitName |-> "TJBADGE",
                      assetName |-> TierName(badgeTier)]
          IN /\ Count
             /\ assets' = Append(assets, nft)
             /\ totalBadgesMinted' = totalBadgesMinted + 1
             /\ last' = Accepted("mintBadge", sender,
                                 [supporter |-> supporter,
                                  badgeTier |-> badgeTier,
                                  creatorAddr |-> creatorAddr],
                                 <<nft>>, TierName(badgeTier))
             /\ UNCHANGED <<created, totalCreators, tipGlobals, settingVars,
                            adminVars, isPaused, locals, balance, history,
                            client>>
     ELSE /\ last' = Rejected("mintBadge", sender,
                              [supporter |-> supporter,
                               badgeTier |-> badgeTier,
                               creatorAddr |-> creatorAddr])
          /\ UNCHANGED <<state, calls, history, client>>

\* ------------------------------------------------------------ read-only
getPlatformStats(sender) ==
  /\ Idle
  /\ last' = Accepted("getPlatformStats", sender, NoArgs, <<>>,
                      totalTipsProcessed)
  /\ UNCHANGED <<state, calls, history, client>>

\* No getter reads Txn.sender: one caller, who is not the deployer, is tried.
Readers == {"C"}

\* A getter that returns a global state key.
GlobalQuery(m, sender, value) ==
  /\ Idle
  /\ last' = Accepted(m, sender, NoArgs, <<>>, value)
  /\ UNCHANGED <<state, calls, history, client>>

\* A getter that returns a local state key of an account, unguarded.
AccountQuery(m, sender, account, value) ==
  /\ Idle
  /\ last' = Accepted(m, sender, [creator |-> account], <<>>, value)
  /\ UNCHANGED <<state, calls, history, client>>

\* Mutant: the profile getters are closed while the contract is paused.
ProfileQuery_NotPaused(m, sender, creator, value) ==
  /\ Idle
  /\ last' = IF isPaused = 0 /\ isRegistered[creator] = 1
             THEN Accepted(m, sender, [creator |-> creator], <<>>, value)
             ELSE Rejected(m, sender, [creator |-> creator])
  /\ UNCHANGED <<state, calls, history, client>>

\* A getter that asserts the target is a registered creator, then returns
\* one of its local state keys.
ProfileQuery(m, sender, creator, value) ==
  /\ Idle
  /\ last' = IF isRegistered[creator] = 1
             THEN Accepted(m, sender, [creator |-> creator], <<>>, value)
             ELSE Rejected(m, sender, [creator |-> creator])
  /\ UNCHANGED <<state, calls, history, client>>

\* Mutant: the record is verified by the number of tips.
verifyTipRecord_ReturnsCount(sender, creator) ==
  ProfileQuery("verifyTipRecord", sender, creator, tipCount[creator])
verifyTipRecord(sender, creator) ==
  ProfileQuery("verifyTipRecord", sender, creator, tipsReceived[creator])
getBronzeThreshold(sender) ==
  GlobalQuery("getBronzeThreshold", sender, bronzeThreshold)
getTotalBadgesMinted(sender) ==
  GlobalQuery("getTotalBadgesMinted", sender, totalBadgesMinted)
getCreatorName(sender, creator) ==
  ProfileQuery("getCreatorName", sender, creator, creatorName[creator])
getCreatorBio(sender, creator) ==
  ProfileQuery("getCreatorBio", sender, creator, creatorBio[creator])
getCreatorCategory(sender, creator) ==
  ProfileQuery("getCreatorCategory", sender, creator,
               creatorCategory[creator])
getTipsReceived(sender, creator) ==
  ProfileQuery("getTipsReceived", sender, creator, tipsReceived[creator])
getTipCount(sender, creator) ==
  ProfileQuery("getTipCount", sender, creator, tipCount[creator])
getTotalCreators(sender) ==
  GlobalQuery("getTotalCreators", sender, totalCreators)
getTotalTipCount(sender) ==
  GlobalQuery("getTotalTipCount", sender, totalTipCount)
getRevenueSplitPercent(sender, creator) ==
  AccountQuery("getRevenueSplitPercent", sender, creator,
               revSplitPercent[creator])
checkRegistration(sender, account) ==
  AccountQuery("checkRegistration", sender, account, isRegistered[account])
getMinTipAmount(sender) ==
  GlobalQuery("getMinTipAmount", sender, minTipAmount)
getPlatformFee(sender) ==
  GlobalQuery("getPlatformFee", sender, platformFeeBps)
getIsPaused(sender) == GlobalQuery("getIsPaused", sender, isPaused)
getTotalFeesAccumulated(sender) ==
  GlobalQuery("getTotalFeesAccumulated", sender, totalFeesAccumulated)
getAdminAddress(sender) ==
  GlobalQuery("getAdminAddress", sender, adminAddress)

\* ---------------------------------------------------------- admin settings
MinTipInputs == {MinMinTipAmount - 1, MinMinTipAmount}
FeeInputs == {0, MaxPlatformFeeBps, MaxPlatformFeeBps + 1}
ThresholdInputs ==
  { [bronze |-> 1000000, silver |-> 2000000, gold |-> 3000000,
     diamond |-> 4000000],
    [bronze |-> 2000000, silver |-> 2000000, gold |-> 3000000,
     diamond |-> 4000000] }
WithdrawInputs == {0, 1234, 20000, 4000000}

\* Mutant: the floor of the minimum tip is left out.
setMinTipAmountOk_NoFloor(sender, newMin) == sender = adminAddress
setMinTipAmountOk(sender, newMin) ==
  /\ assertAdmin(sender)
  /\ newMin >= MinMinTipAmount

setMinTipAmount(sender, newMin) ==
  /\ Idle
  /\ IF setMinTipAmountOk(sender, newMin)
     THEN /\ Count
          /\ minTipAmount' = newMin
          /\ last' = Accepted("setMinTipAmount", sender,
                              [newMin |-> newMin], <<>>,
                              "Minimum tip amount updated")
          /\ UNCHANGED <<created, totalCreators, tipGlobals, platformFeeBps,
                         bronzeThreshold, silverThreshold, goldThreshold,
                         diamondThreshold, adminVars, isPaused,
                         totalBadgesMinted, locals, ledger, history, client>>
     ELSE /\ last' = Rejected("setMinTipAmount", sender, [newMin |-> newMin])
          /\ UNCHANGED <<state, calls, history, client>>

setPlatformFeeOk(sender, newFeeBps) ==
  /\ assertAdmin(sender)
  /\ newFeeBps <= MaxPlatformFeeBps

setPlatformFee(sender, newFeeBps) ==
  /\ Idle
  /\ IF setPlatformFeeOk(sender, newFeeBps)
     THEN /\ Count
          /\ platformFeeBps' = newFeeBps
          /\ last' = Accepted("setPlatformFee", sender,
                              [newFeeBps |-> newFeeBps], <<>>,
                              "Platform fee updated")
          /\ UNCHANGED <<created, totalCreators, tipGlobals, minTipAmount,
                         bronzeThreshold, silverThreshold, goldThreshold,
                         diamondThreshold, adminVars, isPaused,
                         totalBadgesMinted, locals, ledger, history, client>>
     ELSE /\ last' = Rejected("setPlatformFee", sender,
                              [newFeeBps |-> newFeeBps])
          /\ UNCHANGED <<state, calls, history, client>>

\* Mutants: the admin check, or the limit of the accumulated fees, is left
\* out.
withdrawPlatformFeesOk_NoAdminCheck(sender, amount) ==
  /\ amount > 0
  /\ amount <= totalFeesAccumulated
  /\ balance[AppAddress] >= amount
  /\ balance[AppAddress] - amount >= MIN_CONTRACT_BALANCE
withdrawPlatformFeesOk_NoFeeLimit(sender, amount) ==
  /\ sender = adminAddress
  /\ amount > 0
  /\ balance[AppAddress] >= amount
  /\ balance[AppAddress] - amount >= MIN_CONTRACT_BALANCE

\* Mutant: the fee limit is left out and the subtraction of the reserve
\* check wraps around below zero, so that its huge result passes.
withdrawPlatformFeesOk_Wraps(sender, amount) ==
  /\ sender = adminAddress
  /\ amount > 0
  /\ \/ balance[AppAddress] < amount
     \/ balance[AppAddress] - amount >= MIN_CONTRACT_BALANCE
withdrawPlatformFeesOk(sender, amount) ==
  /\ assertAdmin(sender)
  /\ amount > 0
  /\ amount <= totalFeesAccumulated
  \* contractBalance - amount is an unsigned subtraction: it fails below 0.
  /\ balance[AppAddress] >= amount
  /\ balance[AppAddress] - amount >= MIN_CONTRACT_BALANCE

withdrawPlatformFees(sender, amount) ==
  /\ Idle
  /\ IF withdrawPlatformFeesOk(sender, amount)
     THEN /\ Count
          /\ balance' = Pay(balance, AppAddress, sender, amount)
          /\ totalFeesAccumulated' = totalFeesAccumulated - amount
          /\ last' = Accepted("withdrawPlatformFees", sender,
                              [amount |-> amount],
                              << [type |-> "pay", receiver |-> sender,
                                  amount |-> amount] >>,
                              "Platform fees withdrawn")
          /\ UNCHANGED <<created, totalCreators, totalTipsProcessed,
                         totalTipCount, settingVars, adminVars, isPaused,
                         totalBadgesMinted, locals, assets, history, client>>
     ELSE /\ last' = Rejected("withdrawPlatformFees", sender,
                              [amount |-> amount])
          /\ UNCHANGED <<state, calls, history, client>>

\* Mutant: equal neighbouring thresholds are let through.
setBadgeThresholdsOk_NonStrict(sender, t) ==
  /\ sender = adminAddress
  /\ t.bronze <= t.silver /\ t.silver <= t.gold /\ t.gold <= t.diamond

setBadgeThresholdsOk(sender, t) ==
  /\ assertAdmin(sender)
  /\ t.bronze < t.silver /\ t.silver < t.gold /\ t.gold < t.diamond

setBadgeThresholds(sender, t) ==
  /\ Idle
  /\ IF setBadgeThresholdsOk(sender, t)
     THEN /\ Count
          /\ bronzeThreshold' = t.bronze
          /\ silverThreshold' = t.silver
          /\ goldThreshold' = t.gold
          /\ diamondThreshold' = t.diamond
          /\ last' = Accepted("setBadgeThresholds", sender, t, <<>>,
                              "Badge thresholds updated")
          /\ UNCHANGED <<created, totalCreators, tipGlobals, minTipAmount,
                         platformFeeBps, adminVars, isPaused,
                         totalBadgesMinted, locals, ledger, history, client>>
     ELSE /\ last' = Rejected("setBadgeThresholds", sender, t)
          /\ UNCHANGED <<state, calls, history, client>>

\* --------------------------------------------------------- statement order
\* The body of each method as the sequence of its effectful statements, in
\* source order: an assert (a guard helper is one assert), a write of a
\* global or local state key, or the submission of an inner transaction.
Steps(kind, n) == [i \in 1 .. n |-> kind]
pauseContractBody == Steps("assert", 1) \o Steps("write", 1)
unpauseContractBody == Steps("assert", 1) \o Steps("write", 1)
transferAdminBody == Steps("assert", 2) \o Steps("write", 1)
acceptAdminBody == Steps("assert", 2) \o Steps("write", 2)
registerCreatorBody == Steps("assert", 9) \o Steps("write", 11)
updateProfileBody == Steps("assert", 6) \o Steps("write", 4)
setRevenueSplitBody == Steps("assert", 7) \o Steps("write", 3)
removeRevenueSplitBody == Steps("assert", 2) \o Steps("write", 3)
\* Mutant: the fee is accumulated before the self-tip check.
sendTipBody_EarlyWrite ==
  Steps("assert", 6) \o Steps("write", 1) \o Steps("assert", 1)
    \o Steps("itxn", 1) \o Steps("write", 4)
sendTipBody ==
  Steps("assert", 7) \o Steps("write", 1) \o Steps("itxn", 1)
    \o Steps("write", 4)
mintBadgeBody == Steps("assert", 4) \o Steps("itxn", 1) \o Steps("write", 1)
getPlatformStatsBody == <<>>
\* The other getters: one assert before the return, or the return alone.
ProfileQueryBody == Steps("assert", 1)
PlainQueryBody == <<>>
setMinTipAmountBody == Steps("assert", 2) \o Steps("write", 1)
setPlatformFeeBody == Steps("assert", 2) \o Steps("write", 1)
withdrawPlatformFeesBody ==
  Steps("assert", 4) \o Steps("itxn", 1) \o Steps("write", 1)
setBadgeThresholdsBody == Steps("assert", 2) \o Steps("write", 4)
MethodBody ==
  [pauseContract |-> pauseContractBody,
   unpauseContract |-> unpauseContractBody,
   transferAdmin |-> transferAdminBody,
   acceptAdmin |-> acceptAdminBody,
   registerCreator |-> registerCreatorBody,
   updateProfile |-> updateProfileBody,
   setRevenueSplit |-> setRevenueSplitBody,
   removeRevenueSplit |-> removeRevenueSplitBody,
   sendTip |-> sendTipBody,
   mintBadge |-> mintBadgeBody,
   getPlatformStats |-> getPlatformStatsBody,
   verifyTipRecord |-> ProfileQueryBody,
   getCreatorName |-> ProfileQueryBody,
   getCreatorBio |-> ProfileQueryBody,
   getCreatorCategory |-> ProfileQueryBody,
   getTipsReceived |-> ProfileQueryBody,
   getTipCount |-> ProfileQueryBody,
   getRevenueSplitPercent |-> PlainQueryBody,
   checkRegistration |-> PlainQueryBody,
   getBronzeThreshold |-> PlainQueryBody,
   getTotalBadgesMinted |-> PlainQueryBody,
   getTotalCreators |-> PlainQueryBody,
   getTotalTipCount |-> PlainQueryBody,
   getMinTipAmount |-> PlainQueryBody,
   getPlatformFee |-> PlainQueryBody,
   getIsPaused |-> PlainQueryBody,
   getTotalFeesAccumulated |-> PlainQueryBody,
   getAdminAddress |-> PlainQueryBody,
   setMinTipAmount |-> setMinTipAmountBody,
   setPlatformFee |-> setPlatformFeeBody,
   withdrawPlatformFees |-> withdrawPlatformFeesBody,
   setBadgeThresholds |-> setBadgeThresholdsBody]

\* ------------------------------------------------------------ specification
Next ==
  \/ Deploy
  \/ Return
  \/ \E sender \in Accounts : pauseContract(sender)
  \/ \E sender \in Accounts : unpauseContract(sender)
  \/ \E sender, newAdmin \in Accounts : transferAdmin(sender, newAdmin)
  \/ \E sender \in Accounts : acceptAdmin(sender)
  \/ \E sender \in Accounts, f \in ProfileForms : registerCreator(sender, f)
  \/ \E sender \in Accounts, f \in UpdateForms : updateProfile(sender, f)
  \/ \E sender \in Accounts, f \in SplitForms : setRevenueSplit(sender, f)
  \/ \E sender \in Accounts : removeRevenueSplit(sender)
  \/ \E sender, creator \in Accounts :
       \E p \in TipPayments(sender, creator) :
         sendTip(sender, creator, Message, p)
  \/ \E sender, creatorAddr \in Accounts, badgeTier \in BadgeTiers :
       mintBadge(sender, Supporter, badgeTier, creatorAddr)
  \/ \E sender \in Accounts : getPlatformStats(sender)
  \/ \E sender \in Readers, creator \in Accounts :
       verifyTipRecord(sender, creator)
  \/ \E sender \in Readers : getBronzeThreshold(sender)
  \/ \E sender \in Readers : getTotalBadgesMinted(sender)
  \/ \E sender \in Readers, creator \in Accounts :
       getCreatorName(sender, creator)
  \/ \E sender \in Readers, creator \in Accounts :
       getCreatorBio(sender, creator)
  \/ \E sender \in Readers, creator \in Accounts :
       getCreatorCategory(sender, creator)
  \/ \E sender \in Readers, creator \in Accounts :
       getTipsReceived(sender, creator)
  \/ \E sender \in Readers, creator \in Accounts :
       getTipCount(sender, creator)
  \/ \E sender \in Readers : getTotalCreators(sender)
  \/ \E sender \in Readers : getTotalTipCount(sender)
  \/ \E sender \in Readers, creator \in Accounts :
       getRevenueSplitPercent(sender, creator)
  \/ \E sender \in Readers, account \in Accounts :
       checkRegistration(sender, account)
  \/ \E sender \in Readers : getMinTipAmount(sender)
  \/ \E sender \in Readers : getPlatformFee(sender)
  \/ \E sender \in Readers : getIsPaused(sender)
  \/ \E sender \in Readers : getTotalFeesAccumulated(sender)
  \/ \E sender \in Readers : getAdminAddress(sender)
  \/ \E sender \in Accounts, newMin \in MinTipInputs :
       setMinTipAmount(sender, newMin)
  \/ \E sender \in Accounts, newFeeBps \in FeeInputs :
       setPlatformFee(sender, newFeeBps)
  \/ \E sender \in Accounts, amount \in WithdrawInputs :
       withdrawPlatformFees(sender, amount)
  \/ \E sender \in Accounts, t \in ThresholdInputs :
       setBadgeThresholds(sender, t)

Spec == Init /\ [][Next]_vars

\* =================================================================
\* The browser client (frontend/js/wallet.js and the page script).
\* The client specifications leave the contract as constructed.
\* =================================================================
contractVars == <<state, last, calls, history>>

\* ------------------------------------------------------- withRetry
\* Largest maxRetries passed to withRetry.
MaxRetries == 3
\* The words classifyError looks for in the lower-cased message of a raw
\* error; a raw error is given by the words its message contains.
Markers == {"rejected", "insufficient", "network", "assert"}
RawErrors == SUBSET Markers
\* classifyError: the first matching test decides the code.
classifyError(error) ==
  IF "rejected" \in error THEN "USER_REJECTED"
  ELSE IF "insufficient" \in error THEN "INSUFFICIENT_FUNDS"
  ELSE IF "network" \in error THEN "NETWORK"
  ELSE IF "assert" \in error THEN "CONTRACT"
  ELSE "UNKNOWN"

\* Mutant: every classified error is retried.
retryable_Always(code) == TRUE
\* TipJarError.retryable
retryable(code) == code \in {"NETWORK", "TIMEOUT"}

Thrown(error) ==
  [kind |-> "thrown", code |-> classifyError(error), cause |-> error]

\* withRetry(fn, maxRetries): enters the loop with attempt = 0 and calls fn.
withRetry(maxRetries) ==
  /\ retry.pc = "idle"
  /\ retry' = [NoRetry EXCEPT !.pc = "calling", !.maxRetries = maxRetries]
  /\ UNCHANGED <<contractVars, wallet>>

\* await fn() is fulfilled: withRetry returns that value.
fnResolves ==
  /\ retry.pc = "calling"
  /\ retry' = [retry EXCEPT !.pc = "returned", !.invoked = @ + 1,
                            !.outcome = [kind |-> "returned",
                                         value |-> retry.invoked + 1]]
  /\ UNCHANGED <<contractVars, wallet>>

\* await fn() is rejected with a raw error: the catch block.  After the
\* last attempt the loop ends and the classified lastError is thrown.
fnRejects(error) ==
  /\ retry.pc = "calling"
  /\ retry' =
       IF ~retryable(classifyError(error))
       THEN [retry EXCEPT !.pc = "thrown", !.invoked = @ + 1,
                          !.lastError = error, !.outcome = Thrown(error)]
       ELSE IF retry.attempt < retry.maxRetries
       THEN [retry EXCEPT !.pc = "waiting", !.invoked = @ + 1,
                          !.lastError = error]
       ELSE [retry EXCEPT !.pc = "thrown", !.invoked = @ + 1,
                          !.lastError = error, !.attempt = @ + 1,
                          !.outcome = Thrown(error)]
  /\ UNCHANGED <<contractVars, wallet>>

\* The backoff timer fires: attempt++ and the next call of fn.
backoffElapsed ==
  /\ retry.pc = "waiting"
  /\ retry' = [retry EXCEPT !.pc = "calling", !.attempt = @ + 1]
  /\ UNCHANGED <<contractVars, wallet>>

NextRetry ==
  \/ \E maxRetries \in 0 .. MaxRetries : withRetry(maxRetries)
  \/ fnResolves
  \/ \E error \in RawErrors : fnRejects(error)
  \/ backoffElapsed

\* fn settles and the timer fires: the event loop runs every ready callback.
SpecRetry ==
  /\ Init
  /\ [][NextRetry]_vars
  /\ WF_vars(fnResolves \/ \E error \in RawErrors : fnRejects(error))
  /\ WF_vars(backoffElapsed)

\* --------------------------------------- WalletManager.registerCreator
\* The arguments of a direct registerCreator call: all fields valid, or the
\* receiver address missing (the four-argument call of the page's contract
\* wrapper), or the name empty.
RegisterForms == {"valid", "noReceiver", "noName"}
FormValid(form) == form = "valid"

lockForm(formId) == formId \notin wallet.formLocks
Finished(i, result) ==
  [wallet.call EXCEPT ![i] = [pc |-> "done", result |-> result]]

\* Connect the wallet in demo mode (before anything was registered).
connectDemo ==
  /\ ~wallet.connected
  /\ wallet' = [wallet EXCEPT !.connected = TRUE, !.isRegistered = FALSE]
  /\ UNCHANGED <<contractVars, retry>>

\* registerCreator up to its await: the checks, then the loading flag.
WalletManager_registerCreator(i, form) ==
  /\ wallet.call[i].pc = "none"
  /\ wallet' =
       IF ~wallet.connected \/ ~FormValid(form) \/ wallet.isRegistered
       THEN [wallet EXCEPT !.call = Finished(i, "false")]
       ELSE [wallet EXCEPT !.loading = TRUE, !.call[i].pc = "delay"]
  /\ UNCHANGED <<contractVars, retry>>

\* The simulated delay is over: the rest of registerCreator.
delayElapsed(i) ==
  /\ wallet.call[i].pc = "delay"
  /\ wallet' = [wallet EXCEPT !.isRegistered = TRUE,
                              !.creators = @ + 1,
                              !.loading = FALSE,
                              !.call = Finished(i, "true")]
  /\ UNCHANGED <<contractVars, retry>>

\* The register form is submitted.  A locked form ignores the submit; an
\* incomplete form is unlocked again at once; otherwise the handler calls
\* contract.registerCreator(name, bio, category, image), which passes no
\* receiver address, so the manager's call returns false before its await.
submitRegister(i, filled) ==
  /\ wallet.call[i].pc = "none"
  /\ wallet' =
       IF ~lockForm("register")
       THEN [wallet EXCEPT !.call = Finished(i, "ignored")]
       ELSE IF ~filled
       THEN [wallet EXCEPT !.call = Finished(i, "incomplete")]
       ELSE [wallet EXCEPT !.formLocks = @ \cup {"register"},
                           !.call[i].pc = "handler"]
  /\ UNCHANGED <<contractVars, retry>>

\* The handler resumes with success = false; finally: unlockForm.
handlerResumes(i) ==
  /\ wallet.call[i].pc = "handler"
  /\ wallet' = [wallet EXCEPT !.formLocks = @ \ {"register"},
                              !.call = Finished(i, "false")]
  /\ UNCHANGED <<contractVars, retry>>

NextWallet ==
  \/ connectDemo
  \/ \E i \in Pending, form \in RegisterForms :
       WalletManager_registerCreator(i, form)
  \/ \E i \in Pending : delayElapsed(i)
  \/ \E i \in Pending, filled \in BOOLEAN : submitRegister(i, filled)
  \/ \E i \in Pending : handlerResumes(i)

SpecWallet == Init /\ [][NextWallet]_vars

\* ==================================================================== claims
RECURSIVE SumOver(_, _)
SumOver(f, S) ==
  IF S = {} THEN 0
  ELSE LET a == CHOOSE x \in S : TRUE IN f[a] + SumOver(f, S \ {a})

\* Every call leaves its record in last until Return, and the record holds
\* the state the call found (Pre).  A property of every call is therefore a
\* property of every state in which last holds a record: the state is the
\* one the call left, Pre the one it found.  The steps that are not calls
\* are Deploy, Return and the client's; C25 and C29 are stated over steps.

\* The recorded call is a call of method m.
Called(m) == last.method = m
\* The state the recorded call found, and its tuples.
Pre == last.pre
PreAdminVars == <<Pre.adminAddress, Pre.pendingAdminAddress>>
PreSettingVars ==
  <<Pre.minTipAmount, Pre.platformFeeBps, Pre.bronzeThreshold,
    Pre.silverThreshold, Pre.goldThreshold, Pre.diamondThreshold>>
PreTipGlobals ==
  <<Pre.totalTipsProcessed, Pre.totalTipCount, Pre.totalFeesAccumulated>>
PreGlobals ==
  <<Pre.totalCreators, PreTipGlobals, PreSettingVars, PreAdminVars,
    Pre.isPaused, Pre.totalBadgesMinted>>
PreTextVars ==
  <<Pre.creatorName, Pre.creatorBio, Pre.creatorCategory,
    Pre.profileImageUrl>>
PreSplitVars ==
  <<Pre.revSplitAddress, Pre.revSplitPercent, Pre.revSplitName>>
PreTipLocals == <<Pre.tipsReceived, Pre.tipCount>>
PreLocals == <<PreTextVars, PreSplitVars, PreTipLocals, Pre.isRegistered>>
PreLedger == <<Pre.balance, Pre.assets>>
PreState == <<Pre.created, PreGlobals, PreLocals, PreLedger>>
\* The recorded call changed nothing of the contract and the ledger.
Unchanged == state = PreState
AdminOnlyMethods ==
  {"pauseContract", "unpauseContract", "transferAdmin", "setMinTipAmount",
   "setPlatformFee", "setBadgeThresholds", "withdrawPlatformFees"}

\* C1 -- Conservation: in every reachable state the tipsReceived of all
\* profiles sum to totalTipsProcessed and their tipCount sum to totalTipCount.
C1_Conservation ==
  /\ SumOver(tipsReceived, Accounts) = totalTipsProcessed
  /\ SumOver(tipCount, Accounts) = totalTipCount
\* Two tips have been accepted for one creator.
C1_Witness ==
  \E a \in Accounts : tipCount[a] = 2 /\ tipsReceived[a] >= 2 * 99999

\* C2 -- sendTip guard enforcement: a sendTip whose amount is below
\* minTipAmount, whose target is not registered, whose payment is not to the
\* contract, carries a closeRemainderTo or a rekeyTo, or whose caller is the
\* target, is rejected and changes no global, no profile and no balance.
C2_SendTipGuards ==
  last # NoCall =>
    ( Called("sendTip") =>
        LET c == last.args.creator
            p == last.args.tipPayment
        IN ( \/ p.amount < Pre.minTipAmount
             \/ Pre.isRegistered[c] # 1
             \/ p.receiver # AppAddress
             \/ p.closeRemainderTo # ZeroAddress
             \/ p.rekeyTo # ZeroAddress
             \/ last.sender = c )
           => (~last.ok /\ Unchanged) )
\* A tip rejected for its rekeyTo alone: every other guard passes.
C2_Witness ==
  /\ last.method = "sendTip" /\ ~last.ok
  /\ last.args.tipPayment.rekeyTo # ZeroAddress
  /\ last.args.tipPayment.closeRemainderTo = ZeroAddress
  /\ last.args.tipPayment.receiver = AppAddress
  /\ last.args.tipPayment.amount >= minTipAmount
  /\ isRegistered[last.args.creator] = 1
  /\ last.sender # last.args.creator
  /\ isPaused = 0

\* C3 -- Fee arithmetic: an accepted tip of amount a under fee rate b has
\* b <= 1000, adds exactly fee = floor(a*b/10000) to totalFeesAccumulated,
\* with 0 <= fee <= a/10, and afterFee = a - fee is what an unsplit tip pays
\* out; a = 2,000,000 at b = 100 gives fee 20,000 and afterFee 1,980,000.
C3_FeeArithmetic ==
  last # NoCall =>
    ( (Called("sendTip") /\ last.ok) =>
        LET a == last.args.tipPayment.amount
            b == Pre.platformFeeBps
            fee == totalFeesAccumulated - Pre.totalFeesAccumulated
            afterFee == a - fee
        IN /\ b <= 1000
           /\ fee * 10000 <= a * b /\ a * b < (fee + 1) * 10000
           /\ 0 <= fee /\ fee * 10 <= a /\ 0 <= afterFee
           /\ Pre.revSplitPercent[last.args.creator] = 0
                => last.inner[1].amount = afterFee
           /\ (a = 2000000 /\ b = 100)
                => (fee = 20000 /\ afterFee = 1980000) )
\* The tip of 2,000,000 at 1% has been accepted as the first tip.
C3_Witness ==
  /\ last.method = "sendTip" /\ last.ok
  /\ last.args.tipPayment.amount = 2000000
  /\ platformFeeBps = 100
  /\ totalFeesAccumulated = 20000

\* C4 -- Split distribution: an accepted tip to a creator with split p > 0
\* pays the creator afterFee - floor(afterFee*p/100), the collaborator share
\* being at most half of afterFee; with p = 0 it pays the full afterFee; a
\* 1,000,000 tip at 1% and a 20% split gives shares 198,000 and 792,000.
C4_SplitDistribution ==
  last # NoCall =>
    ( (Called("sendTip") /\ last.ok) =>
        LET a == last.args.tipPayment.amount
            c == last.args.creator
            p == Pre.revSplitPercent[c]
            afterFee == a - (totalFeesAccumulated - Pre.totalFeesAccumulated)
            creatorShare == last.inner[1].amount
            collaboratorShare == afterFee - creatorShare
        IN /\ Len(last.inner) = 1
           /\ last.inner[1].type = "pay"
           /\ last.inner[1].receiver = c
           /\ balance = Pay(Pay(Pre.balance, last.args.tipPayment.sender,
                                 AppAddress, a),
                             AppAddress, c, creatorShare)
           /\ p > 0 =>
                /\ collaboratorShare * 100 <= afterFee * p
                /\ afterFee * p < (collaboratorShare + 1) * 100
                /\ 2 * collaboratorShare <= afterFee
           /\ p = 0 => creatorShare = afterFee
           /\ (a = 1000000 /\ Pre.platformFeeBps = 100 /\ p = 20)
                => (collaboratorShare = 198000 /\ creatorShare = 792000) )
\* The 1,000,000 tip at 1% under a 20% split has paid the creator 792,000.
C4_Witness ==
  /\ last.method = "sendTip" /\ last.ok
  /\ last.args.tipPayment.amount = 1000000
  /\ revSplitPercent[last.args.creator] = 20
  /\ platformFeeBps = 100
  /\ last.inner[1].amount = 792000

\* C5 -- Pause gate: while the contract is paused, registerCreator, sendTip,
\* setRevenueSplit and mintBadge are rejected for every caller and argument,
\* getPlatformStats succeeds, and unpauseContract by the admin succeeds.
C5_PauseGate ==
  last # NoCall =>
    ( Pre.isPaused = 1 =>
        /\ last.method \in {"registerCreator", "sendTip", "setRevenueSplit",
                             "mintBadge"}
             => (~last.ok /\ Unchanged)
        /\ Called("getPlatformStats")
             => (last.ok /\ last.ret = Pre.totalTipsProcessed)
        /\ (Called("unpauseContract") /\ last.sender = Pre.adminAddress)
             => (last.ok /\ isPaused = 0) )
\* A registration that only the pause flag rejects.
C5_Witness ==
  /\ isPaused = 1
  /\ last.method = "registerCreator" /\ ~last.ok
  /\ last.args = ValidProfile
  /\ isRegistered[last.sender] = 0

\* C6 (original) -- Circuit breaker breadth: while paused, every mutating
\* method other than unpauseContract and the settings methods is rejected;
\* updateProfile, removeRevenueSplit, transferAdmin, acceptAdmin and
\* withdrawPlatformFees cannot change state while the contract is paused.
C6_Original ==
  last # NoCall =>
    ( (Pre.isPaused = 1 /\
       last.method \in {"registerCreator", "updateProfile",
                         "setRevenueSplit", "removeRevenueSplit", "sendTip",
                         "mintBadge", "transferAdmin", "acceptAdmin",
                         "withdrawPlatformFees"})
        => (~last.ok /\ Unchanged) )
\* C6 (amended) -- while paused, registerCreator, updateProfile,
\* setRevenueSplit, removeRevenueSplit, sendTip and mintBadge are rejected
\* with no state change; the only calls that change state while paused are
\* unpauseContract, the settings methods, transferAdmin, acceptAdmin and
\* withdrawPlatformFees, which carry no not-paused guard.
C6_PausedMethods ==
  last # NoCall =>
    ( Pre.isPaused = 1 =>
        /\ last.method \in {"registerCreator", "updateProfile",
                             "setRevenueSplit", "removeRevenueSplit",
                             "sendTip", "mintBadge"}
             => (~last.ok /\ Unchanged)
        /\ ~Unchanged
             => last.method \in {"unpauseContract", "setMinTipAmount",
                                  "setPlatformFee", "setBadgeThresholds",
                                  "transferAdmin", "acceptAdmin",
                                  "withdrawPlatformFees"} )
\* A profile update by a registered creator that only the pause flag rejects.
C6_Witness ==
  /\ isPaused = 1
  /\ last.method = "updateProfile" /\ ~last.ok
  /\ isRegistered[last.sender] = 1
  /\ Length(last.args.name) = MAX_NAME_LEN
  /\ Length(last.args.category) > 0

\* C7 -- acceptAdmin is rejected, leaving adminAddress and
\* pendingAdminAddress unchanged, when no transfer is pending or the caller is
\* not the pending identity; otherwise adminAddress becomes the caller and
\* pendingAdminAddress becomes empty.
C7_AcceptAdmin ==
  last # NoCall =>
    ( Called("acceptAdmin") =>
        IF Pre.pendingAdminAddress = NoBytes
           \/ last.sender # Pre.pendingAdminAddress
        THEN ~last.ok /\ Unchanged
        ELSE /\ last.ok
             /\ adminAddress = last.sender
             /\ pendingAdminAddress = NoBytes )
\* B has accepted the transfer proposed by the deployer.
C7_Witness ==
  /\ last.method = "acceptAdmin" /\ last.ok
  /\ last.sender = "B" /\ adminAddress = "B"
  /\ pendingAdminAddress = NoBytes

\* C8 -- After a successful acceptAdmin the replaced admin is a different
\* identity from the new one, and every later admin-only call by it is
\* rejected, from the next call on, until a new handoff makes it admin again.
C8_OldAdminLosesPrivileges ==
  last # NoCall =>
    ( /\ (Called("acceptAdmin") /\ last.ok)
           => (prevAdmin = Pre.adminAddress /\ adminAddress # prevAdmin)
      /\ (last.method \in AdminOnlyMethods /\ last.sender = Pre.prevAdmin)
           => (~last.ok /\ Unchanged) )
\* The deployer, replaced as admin, has had a pauseContract call rejected.
C8_Witness ==
  /\ prevAdmin = Deployer /\ adminAddress # Deployer
  /\ last.method = "pauseContract" /\ last.sender = Deployer /\ ~last.ok

\* C9 -- After initialization adminAddress changes only in a successful
\* acceptAdmin call, and then to the identity that was pendingAdminAddress
\* just before it; no other method and no rejected call changes it.
C9_AdminChangesOnlyByAccept ==
  last # NoCall =>
    ( adminAddress # Pre.adminAddress =>
        /\ Called("acceptAdmin") /\ last.ok
        /\ adminAddress = Pre.pendingAdminAddress
        /\ adminAddress = last.sender )
\* C has become admin by accepting the deployer's proposal.
C9_Witness ==
  /\ created /\ adminAddress = "C" /\ prevAdmin = Deployer
  /\ last.method = "acceptAdmin" /\ last.ok

\* C10 -- Admin-only enforcement: pauseContract, unpauseContract,
\* transferAdmin, setMinTipAmount, setPlatformFee, setBadgeThresholds and
\* withdrawPlatformFees are rejected with no state change for a caller other
\* than adminAddress; isPaused, minTipAmount, platformFeeBps, the thresholds
\* and pendingAdminAddress change, and totalFeesAccumulated decreases, only
\* in a call by an identity that is admin before or after that call.
C10_AdminOnly ==
  last # NoCall =>
    ( /\ (last.method \in AdminOnlyMethods /\ last.sender # Pre.adminAddress)
           => (~last.ok /\ Unchanged)
      /\ ( \/ isPaused # Pre.isPaused
           \/ settingVars # PreSettingVars
           \/ pendingAdminAddress # Pre.pendingAdminAddress
           \/ totalFeesAccumulated < Pre.totalFeesAccumulated )
           => last.sender \in {Pre.adminAddress, adminAddress} )
\* A caller who is not admin has been refused a withdrawal of fees that the
\* contract does hold.
C10_Witness ==
  /\ last.method = "withdrawPlatformFees" /\ ~last.ok
  /\ last.sender # adminAddress
  /\ last.args.amount > 0
  /\ last.args.amount <= totalFeesAccumulated

\* C11 -- Idempotent rejection: a registerCreator call by an identity whose
\* profile is already registered is rejected whatever its arguments, and
\* leaves totalCreators and every field of that profile unchanged.
C11_RegisteredCallerRejected ==
  last # NoCall =>
    ( (Called("registerCreator") /\ Pre.isRegistered[last.sender] = 1)
        => LET s == last.sender
           IN /\ ~last.ok
              /\ totalCreators = Pre.totalCreators
              /\ tipsReceived[s] = Pre.tipsReceived[s]
              /\ tipCount[s] = Pre.tipCount[s]
              /\ revSplitAddress[s] = Pre.revSplitAddress[s]
              /\ revSplitPercent[s] = Pre.revSplitPercent[s]
              /\ revSplitName[s] = Pre.revSplitName[s]
              /\ creatorName[s] = Pre.creatorName[s]
              /\ creatorBio[s] = Pre.creatorBio[s]
              /\ creatorCategory[s] = Pre.creatorCategory[s]
              /\ profileImageUrl[s] = Pre.profileImageUrl[s]
              /\ isRegistered[s] = 1 )
\* A tipped creator with a revenue split has tried to register again with
\* valid arguments while the contract is not paused.
C11_Witness ==
  /\ last.method = "registerCreator" /\ ~last.ok
  /\ last.args \in {ValidProfile, EdgeProfile}
  /\ isPaused = 0
  /\ isRegistered[last.sender] = 1
  /\ tipsReceived[last.sender] > 0
  /\ revSplitPercent[last.sender] > 0

\* C12 -- In every reachable state totalCreators equals the number of
\* identities whose profile has isRegistered = 1.
C12_CreatorCount ==
  totalCreators = Cardinality({a \in Accounts : isRegistered[a] = 1})
\* Every identity has registered.
C12_Witness ==
  /\ totalCreators = 3
  /\ \A a \in Accounts : isRegistered[a] = 1

\* No assert of a method body comes after a write of a state key.
ChecksFirst(body) ==
  \A i, j \in DOMAIN body :
    (body[i] = "write" /\ body[j] = "assert") => j < i

\* C13 -- All-or-nothing calls: a call of any method that is rejected leaves
\* the whole platform state, every profile and every balance as they were,
\* and in the body of every method all checks come before the first state
\* write.
C13_AllOrNothing ==
  last # NoCall =>
    ( /\ ChecksFirst(MethodBody[last.method])
      /\ ~last.ok => Unchanged )
\* A tip was rejected by the last check of sendTip alone, the self-tip check:
\* every earlier check passed, the payment was funded and a fee was due.
C13_Witness ==
  /\ last.method = "sendTip" /\ ~last.ok
  /\ last.sender = last.args.creator
  /\ isPaused = 0
  /\ isRegistered[last.args.creator] = 1
  /\ last.args.tipPayment.amount >= minTipAmount
  /\ last.args.tipPayment.receiver = AppAddress
  /\ last.args.tipPayment.closeRemainderTo = ZeroAddress
  /\ last.args.tipPayment.rekeyTo = ZeroAddress
  /\ PaymentFunded(last.args.tipPayment)
  /\ FeeAmount(last.args.tipPayment.amount, platformFeeBps) > 0

\* C14 -- totalFeesAccumulated never goes below zero and decreases only in a
\* successful withdrawPlatformFees call by the admin, by exactly the
\* withdrawn amount; every other call leaves it unchanged or increases it.
C14_FeesDecreaseOnlyByWithdrawal ==
  last # NoCall =>
    ( /\ Pre.totalFeesAccumulated >= 0 /\ totalFeesAccumulated >= 0
      /\ (totalFeesAccumulated < Pre.totalFeesAccumulated)
           => /\ Called("withdrawPlatformFees") /\ last.ok
              /\ last.sender = Pre.adminAddress
              /\ totalFeesAccumulated =
                   Pre.totalFeesAccumulated - last.args.amount )
\* The admin has withdrawn a part of the accumulated fees.
C14_Witness ==
  /\ last.method = "withdrawPlatformFees" /\ last.ok
  /\ last.args.amount = 1234
  /\ totalFeesAccumulated > 0

C16_SplitWellFormed ==
  \A a \in Accounts :
    isRegistered[a] = 1
      => \/ /\ revSplitPercent[a] \in 1 .. 50
            /\ Length(revSplitAddress[a]) > 0
            /\ Length(revSplitName[a]) > 0
         \/ /\ revSplitPercent[a] = 0
            /\ Length(revSplitAddress[a]) = 0
            /\ Length(revSplitName[a]) = 0
\* One registered profile has the largest split, another has none.
C16_Witness ==
  \E a, b \in Accounts :
    /\ isRegistered[a] = 1 /\ revSplitPercent[a] = 50
    /\ isRegistered[b] = 1 /\ revSplitPercent[b] = 0

\* C17 -- Monotone accumulators: tipsReceived and tipCount of every profile,
\* totalTipsProcessed and totalTipCount never decrease and change only in an
\* accepted sendTip call, where tipsReceived of the target and
\* totalTipsProcessed grow by the gross tip amount and tipCount of the target
\* and totalTipCount grow by 1.
C17_MonotoneAccumulators ==
  last # NoCall =>
    ( /\ \A a \in Accounts : /\ tipsReceived[a] >= Pre.tipsReceived[a]
                             /\ tipCount[a] >= Pre.tipCount[a]
      /\ totalTipsProcessed >= Pre.totalTipsProcessed
      /\ totalTipCount >= Pre.totalTipCount
      /\ ( \/ tipLocals # PreTipLocals
           \/ totalTipsProcessed # Pre.totalTipsProcessed
           \/ totalTipCount # Pre.totalTipCount )
           => (Called("sendTip") /\ last.ok)
      /\ (Called("sendTip") /\ last.ok)
           => LET c == last.args.creator
                  gross == last.args.tipPayment.amount
              IN /\ tipsReceived[c] = Pre.tipsReceived[c] + gross
                 /\ totalTipsProcessed = Pre.totalTipsProcessed + gross
                 /\ tipCount[c] = Pre.tipCount[c] + 1
                 /\ totalTipCount = Pre.totalTipCount + 1 )
\* A creator's second tip has been accepted, of an amount with a fee.
C17_Witness ==
  /\ last.method = "sendTip" /\ last.ok
  /\ tipCount[last.args.creator] = 2
  /\ totalTipCount = 2
  /\ tipsReceived[last.args.creator] > last.args.tipPayment.amount
  /\ last.inner[1].amount < last.args.tipPayment.amount

\* C18 -- Frame of sendTip: an accepted sendTip changes only the target's
\* tipsReceived and tipCount, totalTipsProcessed, totalTipCount,
\* totalFeesAccumulated and the balances of the tipper (the sender of the
\* attached payment), the contract and the target; every other profile, the
\* target's text and split fields, totalCreators, totalBadgesMinted, the
\* admin fields, isPaused, minTipAmount, platformFeeBps and the thresholds are
\* unchanged.
C18_SendTipFrame ==
  last # NoCall =>
    ( (Called("sendTip") /\ last.ok)
        => LET c == last.args.creator
               tipper == last.args.tipPayment.sender
           IN /\ \A a \in Accounts \ {c} :
                   /\ tipsReceived[a] = Pre.tipsReceived[a]
                   /\ tipCount[a] = Pre.tipCount[a]
              /\ <<textVars, splitVars, isRegistered>>
                   = <<PreTextVars, PreSplitVars, Pre.isRegistered>>
              /\ <<totalCreators, totalBadgesMinted, adminVars, isPaused,
                   settingVars>>
                   = <<Pre.totalCreators, Pre.totalBadgesMinted, PreAdminVars,
                       Pre.isPaused, PreSettingVars>>
              /\ \A h \in Holders \ {tipper, AppAddress, c} :
                   balance[h] = Pre.balance[h]
              /\ <<created, assets>>
                   = <<Pre.created, Pre.assets>> )
\* A tip to a creator with a revenue split, whose collaborator is neither
\* the tipper nor the creator, has been accepted.
C18_Witness ==
  /\ last.method = "sendTip" /\ last.ok
  /\ revSplitPercent[last.args.creator] > 0
  /\ revSplitAddress[last.args.creator].ch
       \notin {last.args.creator, last.args.tipPayment.sender}

\* C19 -- registerCreator succeeds exactly when the contract is not paused,
\* the caller is not yet registered, name has length 1..50, bio 1..200,
\* category 1..20 and profileImage 0..200; on success the caller's profile
\* has isRegistered = 1, tipsReceived = 0, tipCount = 0, revSplitPercent = 0,
\* empty revSplitAddress and revSplitName, and totalCreators has grown by 1.
C19_Registration ==
  last # NoCall =>
    ( Called("registerCreator")
        => LET s == last.sender
               f == last.args
           IN /\ last.ok <=> /\ Pre.isPaused = 0
                              /\ Pre.isRegistered[s] # 1
                              /\ Length(f.name) \in 1 .. 50
                              /\ Length(f.bio) \in 1 .. 200
                              /\ Length(f.category) \in 1 .. 20
                              /\ Length(f.profileImage) \in 0 .. 200
              /\ last.ok => /\ isRegistered[s] = 1
                             /\ tipsReceived[s] = 0
                             /\ tipCount[s] = 0
                             /\ revSplitPercent[s] = 0
                             /\ revSplitAddress[s] = EmptyStr
                             /\ revSplitName[s] = EmptyStr
                             /\ totalCreators = Pre.totalCreators + 1 )
\* A second creator has registered with every text at its greatest length
\* or, for the bio and category, its least.
C19_Witness ==
  /\ last.method = "registerCreator" /\ last.ok
  /\ last.args = EdgeProfile
  /\ totalCreators = 2

\* C20 -- Frame of updateProfile: a successful updateProfile overwrites only
\* the caller's name, bio, category and profileImageUrl; the caller's
\* tipsReceived, tipCount, isRegistered and revenue-split fields, every other
\* profile and every global field are unchanged.
C20_UpdateProfileFrame ==
  last # NoCall =>
    ( (Called("updateProfile") /\ last.ok)
        => LET s == last.sender
               f == last.args
           IN /\ creatorName = [Pre.creatorName EXCEPT ![s] = f.name]
              /\ creatorBio = [Pre.creatorBio EXCEPT ![s] = f.bio]
              /\ creatorCategory =
                   [Pre.creatorCategory EXCEPT ![s] = f.category]
              /\ profileImageUrl =
                   [Pre.profileImageUrl EXCEPT ![s] = f.profileImage]
              /\ <<tipLocals, isRegistered, splitVars>>
                   = <<PreTipLocals, Pre.isRegistered, PreSplitVars>>
              /\ <<created, globals, ledger>>
                   = <<Pre.created, PreGlobals, PreLedger>> )
\* A creator who has received a tip has replaced the profile text.
C20_Witness ==
  /\ last.method = "updateProfile" /\ last.ok
  /\ creatorName[last.sender] = last.args.name
  /\ tipsReceived[last.sender] > 0
  /\ tipCount[last.sender] = 1

\* C21 -- setRevenueSplit and removeRevenueSplit never move value: an
\* accepted call changes only the caller's three split fields and leaves
\* every balance, counter, accumulator and other profile unchanged; the
\* percentage an accepted sendTip applies is the one stored for the target
\* when that sendTip executes.
C21_SplitIsLazy ==
  last # NoCall =>
    ( /\ (Called("setRevenueSplit") /\ last.ok)
           => LET s == last.sender
                  f == last.args
              IN /\ revSplitAddress =
                      [Pre.revSplitAddress EXCEPT ![s] = f.collaboratorAddr]
                 /\ revSplitName =
                      [Pre.revSplitName EXCEPT ![s] = f.collaboratorName]
                 /\ revSplitPercent =
                      [Pre.revSplitPercent EXCEPT ![s] = f.splitPercent]
                 /\ <<created, globals, textVars, tipLocals, isRegistered,
                      ledger>>
                      = <<Pre.created, PreGlobals, PreTextVars, PreTipLocals,
                          Pre.isRegistered, PreLedger>>
      /\ (Called("removeRevenueSplit") /\ last.ok)
           => LET s == last.sender
              IN /\ \A a \in Accounts \ {s} :
                      /\ revSplitAddress[a] = Pre.revSplitAddress[a]
                      /\ revSplitName[a] = Pre.revSplitName[a]
                      /\ revSplitPercent[a] = Pre.revSplitPercent[a]
                 /\ <<created, globals, textVars, tipLocals, isRegistered,
                      ledger>>
                      = <<Pre.created, PreGlobals, PreTextVars, PreTipLocals,
                          Pre.isRegistered, PreLedger>>
      /\ (Called("sendTip") /\ last.ok)
           => LET gross == last.args.tipPayment.amount
                  net == gross - (gross * Pre.platformFeeBps) \div 10000
                  percent == Pre.revSplitPercent[last.args.creator]
              IN last.inner[1].amount = net - (net * percent) \div 100 )
\* A creator who has received a tip, with fees accumulated in the contract,
\* has configured a revenue split.
C21_Witness ==
  /\ last.method = "setRevenueSplit" /\ last.ok
  /\ tipsReceived[last.sender] > 0
  /\ totalFeesAccumulated > 0
  /\ revSplitPercent[last.sender] = last.args.splitPercent

\* C22 -- setRevenueSplit is rejected, with the caller's split fields
\* unchanged, when the contract is paused, the caller is not registered,
\* percent is 0 or above 50, the collaborator address is not 58 long, or the
\* collaborator name is empty or longer than 50; removeRevenueSplit by a
\* registered caller on an unpaused contract succeeds and sets the three
\* split fields to empty / zero.
C22_SplitValidation ==
  last # NoCall =>
    ( /\ Called("setRevenueSplit")
           => LET s == last.sender
                  f == last.args
              IN ( \/ Pre.isPaused # 0
                   \/ Pre.isRegistered[s] # 1
                   \/ f.splitPercent = 0
                   \/ f.splitPercent > 50
                   \/ Length(f.collaboratorAddr) # 58
                   \/ Length(f.collaboratorName) = 0
                   \/ Length(f.collaboratorName) > 50 )
                 => (~last.ok /\ (splitVars = PreSplitVars))
      /\ ( /\ Called("removeRevenueSplit")
           /\ Pre.isRegistered[last.sender] = 1
           /\ Pre.isPaused = 0 )
           => LET s == last.sender
              IN /\ last.ok
                 /\ revSplitAddress[s] = EmptyStr
                 /\ revSplitName[s] = EmptyStr
                 /\ revSplitPercent[s] = 0 )
\* A creator with a split in place was refused a new one for its name of 51
\* characters alone.
C22_Witness ==
  /\ last.method = "setRevenueSplit" /\ ~last.ok
  /\ Length(last.args.collaboratorName) = MAX_COLLAB_NAME_LEN + 1
  /\ isPaused = 0
  /\ isRegistered[last.sender] = 1
  /\ revSplitPercent[last.sender] > 0

\* C23 -- Self-reference is rejected: sendTip with caller = target,
\* transferAdmin with newAdmin = the current admin, and setRevenueSplit with
\* the collaborator address equal to the caller's own address are each
\* rejected with no state change.
C23_SelfReference ==
  last # NoCall =>
    ( /\ (Called("sendTip") /\ last.sender = last.args.creator)
           => (~last.ok /\ Unchanged)
      /\ (Called("transferAdmin") /\ last.args.newAdmin = Pre.adminAddress)
           => (~last.ok /\ Unchanged)
      /\ ( /\ Called("setRevenueSplit")
           /\ last.args.collaboratorAddr = AddrStr(last.sender) )
           => (~last.ok /\ Unchanged) )

\* C24 -- mintBadge succeeds exactly when the contract is not paused, the
\* caller is the admin or the creatorAddr argument, the tier is in 1..4 and
\* creatorAddr is registered; on success totalBadgesMinted grows by 1 and one
\* token named for the tier is minted; totalBadgesMinted changes in no other
\* call.
C24_MintBadge ==
  last # NoCall =>
    ( /\ Called("mintBadge")
           => LET s == last.sender
                  t == last.args.badgeTier
                  c == last.args.creatorAddr
                  name == IF t = 1 THEN "Bronze"
                          ELSE IF t = 2 THEN "Silver"
                          ELSE IF t = 3 THEN "Gold"
                          ELSE "Diamond"
              IN /\ last.ok <=> /\ Pre.isPaused = 0
                                 /\ (s = Pre.adminAddress \/ s = c)
                                 /\ t \in 1 .. 4
                                 /\ Pre.isRegistered[c] = 1
                 /\ last.ok
                      => /\ totalBadgesMinted = Pre.totalBadgesMinted + 1
                         /\ Len(assets) = Len(Pre.assets) + 1
                         /\ SubSeq(assets, 1, Len(Pre.assets)) = Pre.assets
                         /\ assets[Len(assets)].assetName = name
                         /\ assets[Len(assets)].total = 1
                 /\ ~last.ok => assets = Pre.assets
      /\ (totalBadgesMinted # Pre.totalBadgesMinted \/ assets # Pre.assets)
           => (Called("mintBadge") /\ last.ok) )
\* A creator who is not the admin has minted a Silver badge.
C24_Witness ==
  /\ last.method = "mintBadge" /\ last.ok
  /\ last.sender # adminAddress
  /\ last.args.badgeTier = 2
  /\ last.ret = "Silver"
  /\ totalBadgesMinted = 1

C26_SettingsInBounds ==
  /\ created
       => /\ platformFeeBps <= 1000
          /\ bronzeThreshold < silverThreshold
          /\ silverThreshold < goldThreshold
          /\ goldThreshold < diamondThreshold
  /\ last # NoCall =>
    ( /\ Called("setPlatformFee")
           => LET v == last.args.newFeeBps
              IN /\ v > 1000 => (~last.ok /\ (settingVars = PreSettingVars))
                 /\ (v <= 1000 /\ last.sender = Pre.adminAddress)
                      => (last.ok /\ platformFeeBps = v)
      /\ Called("setBadgeThresholds")
           => LET t == last.args
                  ascending == /\ t.bronze < t.silver
                               /\ t.silver < t.gold
                               /\ t.gold < t.diamond
              IN /\ ~ascending => (~last.ok /\ (settingVars = PreSettingVars))
                 /\ (ascending /\ last.sender = Pre.adminAddress)
                      => /\ last.ok
                         /\ bronzeThreshold = t.bronze
                         /\ silverThreshold = t.silver
                         /\ goldThreshold = t.gold
                         /\ diamondThreshold = t.diamond )
\* With the fee at its maximum and the thresholds replaced, the admin was
\* refused a tuple with two equal thresholds.
C26_Witness ==
  /\ last.method = "setBadgeThresholds" /\ ~last.ok
  /\ last.sender = adminAddress
  /\ platformFeeBps = 1000
  /\ bronzeThreshold = 1000000

Getters ==
  {"getCreatorName", "getCreatorBio", "getCreatorCategory", "getTipsReceived",
   "getTipCount", "verifyTipRecord", "getRevenueSplitPercent",
   "checkRegistration", "getPlatformStats", "getTotalCreators",
   "getTotalTipCount", "getMinTipAmount", "getPlatformFee", "getIsPaused",
   "getTotalFeesAccumulated", "getAdminAddress", "getBronzeThreshold",
   "getTotalBadgesMinted"}
RegisteredOnlyGetters ==
  {"getCreatorName", "getCreatorBio", "getCreatorCategory", "getTipsReceived",
   "getTipCount", "verifyTipRecord"}

\* C27 -- Read-only accessors never mutate state: a call of any of the 18
\* getters, returning or rejecting, leaves the platform state, every profile
\* and the ledger unchanged, and whether it returns does not depend on the
\* paused flag: it returns unless it is one of the six getters that require
\* a registered target and the target is not registered.
C27_GettersReadOnly ==
  last # NoCall =>
    ( (last.method \in Getters)
        => /\ Unchanged
           /\ last.ok <=> ( last.method \in RegisteredOnlyGetters
                               => Pre.isRegistered[last.args.creator] = 1 ) )
\* The tips of a tipped creator have been read while the contract is paused.
C27_Witness ==
  /\ last.method = "getTipsReceived" /\ last.ok
  /\ isPaused = 1
  /\ last.ret > 0

\* C28 -- Unregistered targets are distinguishable from zero-valued
\* creators: for a target that is not registered, getCreatorName,
\* getCreatorBio, getCreatorCategory, getTipsReceived, getTipCount and
\* verifyTipRecord reject, and checkRegistration returns 0; checkRegistration
\* returns 1 exactly for a registered account; for a registered target
\* getTipsReceived and verifyTipRecord return that profile's tipsReceived.
C28_UnregisteredTargets ==
  last # NoCall =>
    ( /\ ( /\ last.method \in RegisteredOnlyGetters
           /\ Pre.isRegistered[last.args.creator] # 1 )
           => ~last.ok
      /\ Called("checkRegistration")
           => /\ last.ok
              /\ last.ret \in {0, 1}
              /\ last.ret = 1 <=> Pre.isRegistered[last.args.creator] = 1
      /\ ( /\ last.method \in {"getTipsReceived", "verifyTipRecord"}
           /\ Pre.isRegistered[last.args.creator] = 1 )
           => (last.ok /\ last.ret = Pre.tipsReceived[last.args.creator]) )
\* The tip record of a tipped creator has been verified while another
\* account is not registered.
C28_Witness ==
  /\ last.method = "verifyTipRecord" /\ last.ok
  /\ last.ret > 1
  /\ \E a \in Accounts : isRegistered[a] = 0

\* C29 -- Initialization happens exactly once: createApplication sets
\* adminAddress to the initializing caller, pendingAdminAddress to empty,
\* isPaused to 0, the counters and accumulators to 0, minTipAmount to
\* 100,000, platformFeeBps to 100 and the thresholds to 5,000,000 /
\* 25,000,000 / 100,000,000 / 500,000,000; once the contract exists no step
\* initializes it again: it stays created, no counter falls back, and each
\* of these fields changes only in a call of the method that sets it.
C29_InitializedOnce ==
  [][ /\ (~created /\ created')
           => /\ adminAddress' = Deployer
              /\ pendingAdminAddress' = NoBytes
              /\ isPaused' = 0
              /\ totalCreators' = 0 /\ totalTipsProcessed' = 0
              /\ totalTipCount' = 0 /\ totalFeesAccumulated' = 0
              /\ totalBadgesMinted' = 0
              /\ minTipAmount' = 100000
              /\ platformFeeBps' = 100
              /\ bronzeThreshold' = 5000000
              /\ silverThreshold' = 25000000
              /\ goldThreshold' = 100000000
              /\ diamondThreshold' = 500000000
      /\ created
           => /\ created'
              /\ totalCreators' >= totalCreators
              /\ totalTipsProcessed' >= totalTipsProcessed
              /\ totalTipCount' >= totalTipCount
              /\ totalBadgesMinted' >= totalBadgesMinted
              /\ totalFeesAccumulated' < totalFeesAccumulated
                   => last'.method = "withdrawPlatformFees"
              /\ adminAddress' # adminAddress => last'.method = "acceptAdmin"
              /\ pendingAdminAddress' # pendingAdminAddress
                   => last'.method \in {"transferAdmin", "acceptAdmin"}
              /\ isPaused' # isPaused
                   => last'.method \in {"pauseContract", "unpauseContract"}
              /\ minTipAmount' # minTipAmount
                   => last'.method = "setMinTipAmount"
              /\ platformFeeBps' # platformFeeBps
                   => last'.method = "setPlatformFee"
              /\ <<bronzeThreshold, silverThreshold, goldThreshold,
                   diamondThreshold>>' #
                 <<bronzeThreshold, silverThreshold, goldThreshold,
                   diamondThreshold>>
                   => last'.method = "setBadgeThresholds" ]_vars
\* The contract has been created and funded and has taken no call yet.
C29_Witness ==
  /\ created
  /\ calls = 0 /\ last = NoCall
  /\ adminAddress = Deployer
  /\ balance[AppAddress] = FundingAmount

\* C30 -- transferAdmin(newAdmin) succeeds only when the caller is the
\* current admin and newAdmin differs from the current admin; on success it
\* sets pendingAdminAddress to newAdmin and leaves adminAddress and every
\* other field unchanged.
C30_TransferAdmin ==
  last # NoCall =>
    ( (Called("transferAdmin") /\ last.ok)
        => /\ last.sender = Pre.adminAddress
           /\ last.args.newAdmin # Pre.adminAddress
           /\ pendingAdminAddress = last.args.newAdmin
           /\ adminAddress = Pre.adminAddress
           /\ <<created, totalCreators, tipGlobals, settingVars, isPaused,
                totalBadgesMinted, locals, ledger>>
                = <<Pre.created, Pre.totalCreators, PreTipGlobals,
                    PreSettingVars, Pre.isPaused, Pre.totalBadgesMinted,
                    PreLocals, PreLedger>> )
\* The admin has proposed a transfer on a contract with a registered
\* creator, and is still the admin.
C30_Witness ==
  /\ last.method = "transferAdmin" /\ last.ok
  /\ pendingAdminAddress = last.args.newAdmin
  /\ adminAddress = last.sender
  /\ totalCreators > 0

\* C31 -- Registration is permanent: a profile with isRegistered = 1 has
\* isRegistered = 1 in every later state; no call deletes a profile, clears
\* isRegistered, or takes a registered profile's tipsReceived or tipCount
\* back to zero.
C31_RegistrationPermanent ==
  last # NoCall =>
    ( \A a \in Accounts :
        Pre.isRegistered[a] = 1
          => /\ isRegistered[a] = 1
             /\ creatorName[a] # EmptyStr
             /\ tipsReceived[a] >= Pre.tipsReceived[a]
             /\ tipCount[a] >= Pre.tipCount[a] )
\* A creator who has received two tips tries to register again and is
\* still registered, with both tips.
C31_Witness ==
  /\ last.method = "registerCreator" /\ ~last.ok
  /\ isRegistered[last.sender] = 1
  /\ tipCount[last.sender] = 2 /\ tipsReceived[last.sender] > 0

\* C32 -- Retained value is never paid out: the contract's balance is its
\* initial funding plus totalFeesAccumulated plus the collaborator shares of
\* the accepted tips.  Call by call: deployment leaves balance - fees at the
\* funding; an accepted sendTip raises balance - fees by exactly the
\* collaborator share it computes and moves nothing to any account but the
\* creator; every other call leaves balance - fees as it was; and the
\* balance is never below totalFeesAccumulated.
C32_RetainedValue ==
  /\ created => balance[AppAddress] >= totalFeesAccumulated
  /\ (created /\ calls = 0)
       => balance[AppAddress] - totalFeesAccumulated = FundingAmount
  /\ last # NoCall =>
       LET retained == Pre.balance[AppAddress] - Pre.totalFeesAccumulated
           retainedNext == balance[AppAddress] - totalFeesAccumulated
       IN /\ (Called("sendTip") /\ last.ok)
               => LET p == last.args.tipPayment
                      c == last.args.creator
                      fee == (p.amount * Pre.platformFeeBps) \div 10000
                      share == ((p.amount - fee) * Pre.revSplitPercent[c])
                                 \div 100
                  IN /\ retainedNext = retained + share
                     /\ \A a \in Accounts \ {c, p.sender} :
                          balance[a] = Pre.balance[a]
                     /\ balance[c] - Pre.balance[c]
                          = (IF c = p.sender THEN 0 - p.amount ELSE 0)
                            + p.amount - fee - share
          /\ ~(Called("sendTip") /\ last.ok) => retainedNext = retained
\* A tip to a creator with a revenue split has been accepted and the
\* collaborator's share stays in the contract.
C32_Witness ==
  /\ last.method = "sendTip" /\ last.ok
  /\ revSplitPercent[last.args.creator] > 0
  /\ balance[AppAddress] - totalFeesAccumulated > FundingAmount

\* C33 -- minTipAmount is at least 10,000 in every state of the created
\* contract: it starts at 100,000, setMinTipAmount rejects a value below
\* 10,000 and stores any value of at least 10,000 passed by the admin; so
\* every accepted tip has a positive amount.
C33_MinTipFloor ==
  /\ created => minTipAmount >= 10000
  /\ (created /\ calls = 0) => minTipAmount = 100000
  /\ last # NoCall =>
       /\ Called("setMinTipAmount")
            => /\ last.args.newMin < 10000 => ~last.ok
               /\ last.ok => minTipAmount = last.args.newMin
               /\ ( /\ last.args.newMin >= 10000
                    /\ last.sender = Pre.adminAddress ) => last.ok
       /\ (Called("sendTip") /\ last.ok)
            => last.args.tipPayment.amount > 0
\* With the minimum lowered to the floor, a tip below the default minimum
\* has been accepted.
C33_Witness ==
  /\ minTipAmount = 10000
  /\ last.method = "sendTip" /\ last.ok
  /\ last.args.tipPayment.amount < 100000

\* C34 -- A pending admin transfer cannot be cancelled: a non-empty
\* pendingAdminAddress stays non-empty until an acceptAdmin succeeds; an
\* accepted transferAdmin puts an identity other than the admin in the
\* slot, and no other call writes the slot.
C34_NoCancel ==
  last # NoCall =>
    ( /\ (Pre.pendingAdminAddress # NoBytes /\ pendingAdminAddress = NoBytes)
           => (Called("acceptAdmin") /\ last.ok)
      /\ (Called("transferAdmin") /\ last.ok)
           => /\ pendingAdminAddress = last.args.newAdmin
              /\ pendingAdminAddress \notin {NoBytes, Pre.adminAddress}
      /\ pendingAdminAddress # Pre.pendingAdminAddress
           => \/ Called("transferAdmin") /\ last.ok
              \/ Called("acceptAdmin") /\ last.ok )
\* With a transfer pending, the admin names itself as new admin, which is
\* rejected and leaves the pending nominee in place.
C34_Witness ==
  /\ last.method = "transferAdmin" /\ ~last.ok
  /\ last.sender = adminAddress /\ last.args.newAdmin = adminAddress
  /\ pendingAdminAddress \notin {NoBytes, adminAddress}

\* C35 -- A later transferAdmin supersedes an earlier one: after
\* transferAdmin(A) and then transferAdmin(B) with B # A, and before any
\* acceptAdmin succeeds, the pending identity is B, an acceptAdmin by the
\* displaced A is rejected with no change, and an acceptAdmin succeeds for
\* the one pending identity only.
C35_Supersede ==
  last # NoCall =>
    ( /\ (Called("transferAdmin") /\ last.ok
            /\ Pre.pendingAdminAddress \notin {NoBytes, last.args.newAdmin})
           => /\ displaced = Pre.pendingAdminAddress
              /\ pendingAdminAddress = last.args.newAdmin
      /\ Pre.displaced # NoBytes
           => /\ Pre.pendingAdminAddress \notin {NoBytes, Pre.displaced}
              /\ (Called("acceptAdmin") /\ last.sender = Pre.displaced)
                   => (~last.ok /\ Unchanged)
      /\ (Called("acceptAdmin") /\ last.ok)
           => (last.sender = Pre.pendingAdminAddress
                 /\ adminAddress = Pre.pendingAdminAddress) )
\* The first nominee tries to accept after the admin has named another
\* one, and is rejected.
C35_Witness ==
  /\ last.method = "acceptAdmin" /\ ~last.ok
  /\ last.sender = displaced
  /\ pendingAdminAddress \notin {NoBytes, displaced}

\* The arguments of the recorded admin-only call pass the method's own
\* checks in the state the call found.
C36_ArgsPass(call) ==
  CASE call.method = "transferAdmin" -> call.args.newAdmin # call.sender
    [] call.method = "setMinTipAmount" -> call.args.newMin >= 10000
    [] call.method = "setPlatformFee" -> call.args.newFeeBps <= 1000
    [] call.method = "setBadgeThresholds" ->
         /\ call.args.bronze < call.args.silver
         /\ call.args.silver < call.args.gold
         /\ call.args.gold < call.args.diamond
    [] call.method = "withdrawPlatformFees" ->
         /\ 0 < call.args.amount
         /\ call.args.amount <= Pre.totalFeesAccumulated
         /\ Pre.balance[AppAddress] - call.args.amount >= 100000
    [] OTHER -> TRUE
\* C36 -- While an admin transfer is pending, the current admin keeps every
\* admin-only privilege and the nominee has none: the pending identity is
\* not the admin, its admin-only calls are rejected with no change, and the
\* admin's admin-only calls are accepted whenever their arguments pass.
C36_PendingHasNoPrivilege ==
  last # NoCall =>
    ( Pre.pendingAdminAddress # NoBytes
        => /\ Pre.pendingAdminAddress # Pre.adminAddress
           /\ (last.method \in AdminOnlyMethods
                 /\ last.sender = Pre.pendingAdminAddress)
                => (~last.ok /\ Unchanged)
           /\ (last.method \in AdminOnlyMethods
                 /\ last.sender = Pre.adminAddress)
                => (last.ok <=> C36_ArgsPass(last)) )
\* The nominee of a pending transfer tries to pause the contract and is
\* rejected.
C36_Witness ==
  /\ last.method = "pauseContract" /\ ~last.ok
  /\ last.sender = pendingAdminAddress
  /\ isPaused = 0

C38_BothOrders(v, t1, t2) ==
  /\ TipAccepted(v, t1) /\ TipAccepted(TipEffect(v, t1), t2)
  /\ TipAccepted(v, t2) /\ TipAccepted(TipEffect(v, t2), t1)
\* C38 -- Accepted tips commute: an accepted sendTip call changes the
\* balances and the tip statistics as TipEffect says, and from every state
\* of the idle contract, two sendTip calls that are accepted in either
\* order leave the same tipsReceived and tipCount of every profile, the
\* same totalTipsProcessed, totalTipCount and totalFeesAccumulated and the
\* same balances whichever comes first.
C38_TipsCommute ==
  /\ (last # NoCall /\ Called("sendTip") /\ last.ok)
       => TipView =
            TipEffect([balance |-> Pre.balance,
                       tipsReceived |-> Pre.tipsReceived,
                       tipCount |-> Pre.tipCount,
                       totalTipsProcessed |-> Pre.totalTipsProcessed,
                       totalTipCount |-> Pre.totalTipCount,
                       totalFeesAccumulated |-> Pre.totalFeesAccumulated],
                      [sender |-> last.sender,
                       creator |-> last.args.creator,
                       tipPayment |-> last.args.tipPayment])
  /\ Idle =>
       \A t1 \in TipCalls, t2 \in TipCalls :
         C38_BothOrders(TipView, t1, t2)
           => TipEffect(TipEffect(TipView, t1), t2)
                = TipEffect(TipEffect(TipView, t2), t1)
\* Two tips of different amounts have been accepted one after the other
\* for one creator, and the ledger would have accepted them in the other
\* order too.
C38_Witness ==
  /\ last.method = "sendTip" /\ last.ok
  /\ tipCount[last.args.creator] = 2
  /\ tipsReceived[last.args.creator] # 2 * last.args.tipPayment.amount
  /\ \E t1 \in TipCalls, t2 \in TipCalls :
       /\ t1.tipPayment.amount # t2.tipPayment.amount
       /\ t1.creator = t2.creator
       /\ C38_BothOrders(TipView, t1, t2)

C40_SingleRegistration ==
  /\ wallet.creators <= 1
  /\ Cardinality({i \in Pending : wallet.call[i].result = "true"}) <= 1

====
